---------------------------- MODULE Spec2Model ----------------------------
(***************************************************************************)
(* Rose Bot (syxc/alma-bot): the conversational state engine.              *)
(*                                                                         *)
(*   - MemoryStore: the SQLite tables messages / memories / moods and the  *)
(*     methods over them (src/memory.js 447-697), with the in-process      *)
(*     importantCache / moodCache of the cached revision (12-203);         *)
(*   - chatWithLLM: the retry loop of the model client (779-834);          *)
(*   - initiateActiveConversation: the proactive sweep (1163-1196), with   *)
(*     the message and command handlers that write the session maps.       *)
(*                                                                         *)
(* Time is Date.now() in milliseconds.  It never runs backwards, and       *)
(* several statements may run within one millisecond.                      *)
(***************************************************************************)
EXTENDS Integers, Sequences, FiniteSets, TLC

VARIABLES
    messages,        \* table messages, rows in rowid order
    memories,        \* table memories, rows in rowid order
    moods,           \* table moods, rows in rowid order
    seq,             \* AUTOINCREMENT counters (sqlite_sequence), one per table
    importantCache,  \* MemoryStore.importantCache (cached revision): userId -> facts
    moodCache,       \* MemoryStore.moodCache (cached revision): userId -> mood
    revision,        \* which MemoryStore revision this process runs
    now,             \* Date.now()
    ret,             \* what the last store call returned or raised
    ops,             \* number of store writes so far (bounded by MaxOps)
    llm,             \* the chatWithLLM call in progress: its loop state
    lastMessageTime,        \* Map: userId -> time of the last completed turn
    userNames,              \* Map: userId -> display name
    lastInteractionTime,    \* Map: userId -> time of the last turn or command
    lastActiveMessageTime,  \* Map: userId -> stamp of the last proactive message
    sweeps,          \* initiateActiveConversation calls, by slot
    nextSweepAt,     \* when the setInterval of line 1196 fires next
    turns,           \* handleMessage calls, by slot
    commands,        \* handleCommand calls, by slot
    tasks,           \* setTimeout(..., 0) callbacks scheduled by turns, in order
    outbox,          \* what Telegram accepted from bot.sendMessage, in order
    budget,          \* counters: inbound messages received, sweeps started
    MEMORY_LIMIT,    \* parseInt(process.env.MEMORY_LIMIT || '20'), line 728
    nextCleanupAt    \* when the setInterval of lines 752-774 fires next

storeVars == <<messages, memories, moods, seq, importantCache, moodCache,
               revision, now, ret, ops>>
sessionVars == <<lastMessageTime, userNames, lastInteractionTime,
                 lastActiveMessageTime>>
botVars == <<sessionVars, sweeps, nextSweepAt, turns, commands, tasks, outbox,
             budget, MEMORY_LIMIT, nextCleanupAt>>
nonStoreVars == <<llm, botVars>>
vars == <<storeVars, nonStoreVars>>

----------------------------------------------------------------------------
(* Bounds and inputs *)

MaxOps == 1
MaxTicks == 1

Users == {"u1", "u2"}
Roles == {"user", "assistant"}
Contents == {"hi"}
Facts == {"", "likes cats", "named Ming"}
Moods == {"", "calm", "tired"}
Limits == {-1, 0, 20, 51}
Revisions == {"cached", "validated"}

Null == "<null>"

\* Date.now() when the process starts, and the granularity of the clock steps.
Start == 10 * 24 * 60 * 60 * 1000
TimeStep == 10 * 60 * 1000

\* What a database file left by earlier runs holds for user u1
\* (CREATE TABLE IF NOT EXISTS keeps it): so many messages, facts and moods.
Snapshots ==
    { [msgs |-> 0,   facts |-> 0, moods |-> 0],
      [msgs |-> 100, facts |-> 2, moods |-> 50] }

----------------------------------------------------------------------------
(* Sequences *)

Min(a, b) == IF a < b THEN a ELSE b
Max(a, b) == IF a > b THEN a ELSE b

Reverse(s) == [i \in 1..Len(s) |-> s[Len(s) + 1 - i]]

\* Array.prototype.slice(-n), n > 0
SliceLast(s, n) == SubSeq(s, Max(1, Len(s) - n + 1), Len(s))

IsSuffix(s, t) ==
    /\ Len(s) <= Len(t)
    /\ \A i \in 1..Len(s) : s[i] = t[Len(t) - Len(s) + i]

\* A JavaScript number is written "#101"; the string '101' is written "101".
\* The user_id columns have TEXT affinity (src/memory.js 475, 488, 500): a
\* number bound to them, stored or compared, is converted to its decimal text.
SqlText(v) ==
    CASE v = "#101" -> "101"
      [] v = "#102" -> "102"
      [] OTHER -> v

RowsOf(table, userId) ==
    LET text == SqlText(userId)
    IN  SelectSeq(table, LAMBDA r : r.user_id = text)

----------------------------------------------------------------------------
(* The SQL statements (preparedStatements, src/memory.js 508-545) *)

RecentCap == 50
AllCap == 100
MoodOffset == 50

\* Sorting by a two-part key (k1, then k2), both ascending: a merge sort.
KeyBefore(a, b) == a.k1 < b.k1 \/ (a.k1 = b.k1 /\ a.k2 < b.k2)

MergeRuns(A, B) ==
    IF A = <<>> THEN B
    ELSE IF B = <<>> THEN A
    ELSE IF KeyBefore(A[Len(A)], B[1]) THEN A \o B
    ELSE LET posA == [i \in 1..Len(A) |->
                        i + Cardinality({j \in 1..Len(B) : KeyBefore(B[j], A[i])})]
             posB == [j \in 1..Len(B) |->
                        j + Cardinality({i \in 1..Len(A) : ~KeyBefore(B[j], A[i])})]
         IN  [p \in 1..(Len(A) + Len(B)) |->
                IF \E i \in 1..Len(A) : posA[i] = p
                THEN A[CHOOSE i \in 1..Len(A) : posA[i] = p]
                ELSE B[CHOOSE j \in 1..Len(B) : posB[j] = p]]

RECURSIVE SortKeyed(_)
SortKeyed(s) ==
    IF Len(s) <= 1 THEN s
    ELSE LET h == Len(s) \div 2
         IN  MergeRuns(SortKeyed(SubSeq(s, 1, h)), SortKeyed(SubSeq(s, h + 1, Len(s))))

Unkey(s) == [i \in 1..Len(s) |-> s[i].row]

\* The rows of one user as a forward scan of idx_messages_user_created or
\* idx_moods_user_created yields them: the index entries are ordered by
\* (user_id, created_at, rowid).  ORDER BY created_at DESC is the backward scan.
IndexScan(rows) ==
    IF \A i \in 1..(Len(rows) - 1) :
          \/ rows[i].created_at < rows[i + 1].created_at
          \/ /\ rows[i].created_at = rows[i + 1].created_at
             /\ rows[i].id < rows[i + 1].id
    THEN rows   \* the table already holds them in that order
    ELSE Unkey(SortKeyed([i \in 1..Len(rows) |->
            [k1 |-> rows[i].created_at, k2 |-> rows[i].id, row |-> rows[i]]]))

OrderByCreatedAtAsc(rows) == IndexScan(rows)
OrderByCreatedAtDesc(rows) == Reverse(IndexScan(rows))

\* memories has no index on created_at: ORDER BY created_at DESC is a stable
\* sort of the scanned rows (rows of one millisecond keep their rowid order).
SorterDesc(rows) ==
    Unkey(SortKeyed([i \in 1..Len(rows) |->
            [k1 |-> 0 - rows[i].created_at, k2 |-> i, row |-> rows[i]]]))

\* LIMIT n: a negative n is no limit
SqlLimit(rows, n) == IF n < 0 THEN rows ELSE SubSeq(rows, 1, Min(n, Len(rows)))

\* OFFSET k of LIMIT -1 OFFSET k
SqlOffset(rows, k) == SubSeq(rows, k + 1, Len(rows))

RoleContent(rows) ==
    [i \in 1..Len(rows) |-> [role |-> rows[i].role, content |-> rows[i].content]]

\* the INSERT on the table `table` whose last rowid was lastId
insertMessageInto(table, lastId, userId, role, content, t) ==
    Append(table, [id |-> lastId + 1, user_id |-> SqlText(userId), role |-> role,
                   content |-> content, created_at |-> t])

insertMessage(userId, role, content, t) ==
    insertMessageInto(messages, seq.messages, userId, role, content, t)

\* (mutant) INSERT OR REPLACE: the stored row gives way to a new one
insertMemory_replace(userId, fact, t) ==
    Append(SelectSeq(memories, LAMBDA r : ~(r.user_id = SqlText(userId)
                                             /\ r.fact = fact)),
           [id |-> seq.memories + 1, user_id |-> SqlText(userId),
            fact |-> fact, created_at |-> t])

\* (mutant) a plain INSERT on a table without the UNIQUE(user_id, fact) constraint
insertMemory_plain(userId, fact, t) ==
    Append(memories, [id |-> seq.memories + 1, user_id |-> SqlText(userId),
                      fact |-> fact, created_at |-> t])

\* INSERT ... ON CONFLICT(user_id, fact) DO NOTHING
insertMemory(userId, fact, t) ==
    IF \E i \in 1..Len(memories) :
          memories[i].user_id = SqlText(userId) /\ memories[i].fact = fact
    THEN memories
    ELSE Append(memories, [id |-> seq.memories + 1, user_id |-> SqlText(userId),
                           fact |-> fact, created_at |-> t])

insertMood(userId, mood, t) ==
    Append(moods, [id |-> seq.moods + 1, user_id |-> SqlText(userId), mood |-> mood,
                   created_at |-> t])

getMessageCount(userId) == Len(RowsOf(messages, userId))

getMemories(userId) ==
    LET rows == SorterDesc(RowsOf(memories, userId))
    IN  [i \in 1..Len(rows) |-> rows[i].fact]

\* (mutant) ORDER BY created_at ASC LIMIT 1
getMood_asc(table, userId) ==
    SqlLimit(OrderByCreatedAtAsc(RowsOf(table, userId)), 1)

\* SELECT mood ... ORDER BY created_at DESC LIMIT 1, on the table `table`
getMood(table, userId) ==
    SqlLimit(OrderByCreatedAtDesc(RowsOf(table, userId)), 1)

getRecentMessages(userId, limit) ==
    RoleContent(SqlLimit(OrderByCreatedAtDesc(RowsOf(messages, userId)), limit))

getAllMessages(userId) ==
    RoleContent(OrderByCreatedAtAsc(RowsOf(messages, userId)))

clearMessages(userId) ==
    LET text == SqlText(userId)
    IN  SelectSeq(messages, LAMBDA r : r.user_id # text)
clearMemories(userId) ==
    LET text == SqlText(userId)
    IN  SelectSeq(memories, LAMBDA r : r.user_id # text)
clearMoods(userId) ==
    LET text == SqlText(userId)
    IN  SelectSeq(moods, LAMBDA r : r.user_id # text)

\* (mutant) the trim selects ORDER BY created_at ASC: it drops the newest rows
deleteOldMoods_asc(table, userId) ==
    LET old == SqlOffset(OrderByCreatedAtAsc(RowsOf(table, userId)), MoodOffset)
        ids == {old[i].id : i \in 1..Len(old)}
    IN  SelectSeq(table, LAMBDA r : r.id \notin ids)

\* (mutant) the subquery has no WHERE user_id = ?: the newest 50 moods of
\* the whole table are kept
deleteOldMoods_anyUser(table, userId) ==
    LET old == SqlOffset(OrderByCreatedAtDesc(table), MoodOffset)
        ids == {old[i].id : i \in 1..Len(old)}
    IN  SelectSeq(table, LAMBDA r : r.id \notin ids)

\* DELETE FROM moods WHERE id IN (SELECT id ... ORDER BY created_at DESC
\* LIMIT -1 OFFSET 50), on the table `table`
deleteOldMoods(table, userId) ==
    LET old == SqlOffset(OrderByCreatedAtDesc(RowsOf(table, userId)), MoodOffset)
        ids == {old[i].id : i \in 1..Len(old)}
    IN  SelectSeq(table, LAMBDA r : r.id \notin ids)

getUserIdsStmt == {messages[i].user_id : i \in 1..Len(messages)}

\* the rows of SELECT DISTINCT user_id, as the scan of idx_messages_user_created
\* yields them: in the order of the text
UserIdOrder == <<"101", "102", "u1", "u2">>
getUserIdsRows == SelectSeq(UserIdOrder, LAMBDA u : u \in getUserIdsStmt)

----------------------------------------------------------------------------
(* JavaScript Map: a function whose domain is the set of keys present *)

EmptyMap == [k \in {} |-> Null]
MapHas(m, k) == k \in DOMAIN m
MapSet(m, k, v) == [x \in DOMAIN m \cup {k} |-> IF x = k THEN v ELSE m[x]]
MapDelete(m, k) == [x \in DOMAIN m \ {k} |-> m[x]]
\* m.get(k) || d
MapGetOr(m, k, d) == IF k \in DOMAIN m THEN m[k] ELSE d

----------------------------------------------------------------------------
(* MemoryStore, latest revision (src/memory.js 447-697) *)

\* Where a statement of a store method fails with a storage error
AddFails == {"none", "insert", "count"}
FactFails == {"none", "insert"}
MoodFails == {"none", "insert", "trim"}
ClearFails == {"none", "messages", "memories", "moods"}

Ret(op, userId, arg, err, val) ==
    [op |-> op, user |-> userId, arg |-> arg, err |-> err, val |-> val]

\* the body of add, whoever calls it
DoAdd(userId, role, content, fail) ==
    /\ ops' = ops + 1
    /\ IF userId = "" \/ role = "" \/ fail = "insert"
       THEN UNCHANGED <<messages, seq>>
       ELSE /\ messages' = insertMessage(userId, role, content, now)
            /\ seq' = [seq EXCEPT !.messages = @ + 1]
    /\ ret' = Ret("add", userId, <<role, content>>,
                  userId = "" \/ role = "" \/ fail # "none", Null)
    /\ UNCHANGED <<memories, moods, importantCache, moodCache, revision, now>>
    /\ UNCHANGED nonStoreVars

add(userId, role, content, fail) ==
    /\ ops < MaxOps
    /\ DoAdd(userId, role, content, fail)

addImportantFact(userId, fact, fail) ==
    /\ revision = "validated"
    /\ ops < MaxOps
    /\ ops' = ops + 1
    /\ IF userId = "" \/ fact = "" \/ fail = "insert"
       THEN UNCHANGED <<memories, seq>>
       ELSE /\ memories' = insertMemory(userId, fact, now)
            /\ seq' = [seq EXCEPT !.memories = @ + Len(memories') - Len(memories)]
    /\ ret' = Ret("addImportantFact", userId, fact,
                  userId = "" \/ fact = "" \/ fail # "none", Null)
    /\ UNCHANGED <<messages, moods, importantCache, moodCache, revision, now>>
    /\ UNCHANGED nonStoreVars

addMood(userId, mood, fail) ==
    /\ revision = "validated"
    /\ ops < MaxOps
    /\ ops' = ops + 1
    /\ IF userId = "" \/ mood = "" \/ fail = "insert"
       THEN UNCHANGED <<moods, seq>>
       ELSE /\ moods' = IF fail = "trim"
                        THEN insertMood(userId, mood, now)
                        ELSE deleteOldMoods(insertMood(userId, mood, now), userId)
            /\ seq' = [seq EXCEPT !.moods = @ + 1]
    /\ ret' = Ret("addMood", userId, mood,
                  userId = "" \/ mood = "" \/ fail # "none", Null)
    /\ UNCHANGED <<messages, memories, importantCache, moodCache, revision, now>>
    /\ UNCHANGED nonStoreVars

getImportantFacts(userId) ==
    /\ revision = "validated"
    /\ ret' = Ret("getImportantFacts", userId, Null, FALSE, getMemories(userId))
    /\ UNCHANGED <<messages, memories, moods, seq, importantCache, moodCache,
                   revision, now, ops>>
    /\ UNCHANGED nonStoreVars

getRecentMood(userId) ==
    /\ revision = "validated"
    /\ LET mood == getMood(moods, userId)
       IN  ret' = Ret("getRecentMood", userId, Null, FALSE,
                      IF mood # <<>> THEN mood[1].mood ELSE Null)
    /\ UNCHANGED <<messages, memories, moods, seq, importantCache, moodCache,
                   revision, now, ops>>
    /\ UNCHANGED nonStoreVars

\* the value getRecent returns
getRecentValue(userId, limit, fail) ==
    IF fail THEN <<>>
    ELSE LET maxLimit == Min(limit, RecentCap)
         IN  Reverse(getRecentMessages(userId, maxLimit))

getRecent(userId, limit, fail) ==
    /\ revision = "validated"
    /\ ret' = Ret("getRecent", userId, limit, FALSE,
                  getRecentValue(userId, limit, fail))
    /\ UNCHANGED <<messages, memories, moods, seq, importantCache, moodCache,
                   revision, now, ops>>
    /\ UNCHANGED nonStoreVars

\* the value getAll returns
getAllValue(userId, fail) ==
    IF fail THEN <<>> ELSE SliceLast(getAllMessages(userId), AllCap)

getAll(userId, fail) ==
    /\ revision = "validated"
    /\ ret' = Ret("getAll", userId, Null, FALSE, getAllValue(userId, fail))
    /\ UNCHANGED <<messages, memories, moods, seq, importantCache, moodCache,
                   revision, now, ops>>
    /\ UNCHANGED nonStoreVars

getChatCount(userId) ==
    /\ revision = "validated"
    /\ ret' = Ret("getChatCount", userId, Null, FALSE, getMessageCount(userId))
    /\ UNCHANGED <<messages, memories, moods, seq, importantCache, moodCache,
                   revision, now, ops>>
    /\ UNCHANGED nonStoreVars

\* the body of clear, whoever calls it
DoClear(userId, fail) ==
    /\ revision = "validated"
    /\ ops' = ops + 1
    /\ messages' = IF fail = "messages" THEN messages ELSE clearMessages(userId)
    /\ memories' = IF fail \in {"messages", "memories"} THEN memories
                   ELSE clearMemories(userId)
    /\ moods' = IF fail = "none" THEN clearMoods(userId) ELSE moods
    /\ ret' = Ret("clear", userId, Null, fail # "none", Null)
    /\ UNCHANGED <<seq, importantCache, moodCache, revision, now>>
    /\ UNCHANGED nonStoreVars

clear(userId, fail) ==
    /\ ops < MaxOps
    /\ DoClear(userId, fail)

getUserIds ==
    /\ revision = "validated"
    /\ ret' = Ret("getUserIds", Null, Null, FALSE, getUserIdsStmt)
    /\ UNCHANGED <<messages, memories, moods, seq, importantCache, moodCache,
                   revision, now, ops>>
    /\ UNCHANGED nonStoreVars

----------------------------------------------------------------------------
(* MemoryStore, cached revision (src/memory.js 12-203): the methods that    *)
(* read or drop importantCache and moodCache                                *)

addImportantFact_cached(userId, fact, fail) ==
    /\ revision = "cached"
    /\ ops < MaxOps
    /\ ops' = ops + 1
    /\ IF fail = "insert"
       THEN UNCHANGED <<memories, seq, importantCache>>
       ELSE /\ memories' = insertMemory(userId, fact, now)
            /\ seq' = [seq EXCEPT !.memories = @ + Len(memories') - Len(memories)]
            /\ importantCache' = MapDelete(importantCache, userId)
    /\ ret' = Ret("addImportantFact", userId, fact, fail # "none", Null)
    /\ UNCHANGED <<messages, moods, moodCache, revision, now>>
    /\ UNCHANGED nonStoreVars

addMood_cached(userId, mood, fail) ==
    /\ revision = "cached"
    /\ ops < MaxOps
    /\ ops' = ops + 1
    /\ IF fail = "insert"
       THEN UNCHANGED <<moods, seq, moodCache>>
       ELSE /\ moods' = IF fail = "trim"
                        THEN insertMood(userId, mood, now)
                        ELSE deleteOldMoods(insertMood(userId, mood, now), userId)
            /\ seq' = [seq EXCEPT !.moods = @ + 1]
            /\ moodCache' = MapDelete(moodCache, userId)
    /\ ret' = Ret("addMood", userId, mood, fail # "none", Null)
    /\ UNCHANGED <<messages, memories, importantCache, revision, now>>
    /\ UNCHANGED nonStoreVars

getImportantFacts_cached(userId) ==
    /\ revision = "cached"
    /\ IF MapHas(importantCache, userId)
       THEN /\ ret' = Ret("getImportantFacts", userId, Null, FALSE,
                          importantCache[userId])
            /\ UNCHANGED importantCache
       ELSE LET facts == getMemories(userId)
            IN  /\ importantCache' = MapSet(importantCache, userId, facts)
                /\ ret' = Ret("getImportantFacts", userId, Null, FALSE, facts)
    /\ UNCHANGED <<messages, memories, moods, seq, moodCache, revision, now, ops>>
    /\ UNCHANGED nonStoreVars

getRecentMood_cached(userId) ==
    /\ revision = "cached"
    /\ IF MapHas(moodCache, userId)
       THEN /\ ret' = Ret("getRecentMood", userId, Null, FALSE, moodCache[userId])
            /\ UNCHANGED moodCache
       ELSE LET mood == getMood(moods, userId)
            IN  IF mood # <<>>
                THEN /\ moodCache' = MapSet(moodCache, userId, mood[1].mood)
                     /\ ret' = Ret("getRecentMood", userId, Null, FALSE, mood[1].mood)
                ELSE /\ UNCHANGED moodCache
                     /\ ret' = Ret("getRecentMood", userId, Null, FALSE, Null)
    /\ UNCHANGED <<messages, memories, moods, seq, importantCache, revision, now, ops>>
    /\ UNCHANGED nonStoreVars

\* (mutant) clear leaves the cache entry of the user alone
dropCache_kept(cache, userId) == cache

\* this.importantCache.delete(userId), this.moodCache.delete(userId)
dropCache(cache, userId) == MapDelete(cache, userId)

\* the body of clear in the cached revision, whoever calls it
DoClearCached(userId, fail) ==
    /\ revision = "cached"
    /\ ops' = ops + 1
    /\ messages' = IF fail = "messages" THEN messages ELSE clearMessages(userId)
    /\ memories' = IF fail \in {"messages", "memories"} THEN memories
                   ELSE clearMemories(userId)
    /\ moods' = IF fail = "none" THEN clearMoods(userId) ELSE moods
    /\ IF fail = "none"
       THEN /\ importantCache' = dropCache(importantCache, userId)
            /\ moodCache' = dropCache(moodCache, userId)
       ELSE UNCHANGED <<importantCache, moodCache>>
    /\ ret' = Ret("clear", userId, Null, fail # "none", Null)
    /\ UNCHANGED <<seq, revision, now>>
    /\ UNCHANGED nonStoreVars

clear_cached(userId, fail) ==
    /\ ops < MaxOps
    /\ DoClearCached(userId, fail)

----------------------------------------------------------------------------
(* The clock *)

Tick ==
    /\ now < Start + MaxTicks * TimeStep
    /\ now' = now + TimeStep
    /\ UNCHANGED <<messages, memories, moods, seq, importantCache, moodCache,
                   revision, ret, ops>>
    /\ UNCHANGED nonStoreVars

----------------------------------------------------------------------------
(* chatWithLLM (src/memory.js 779-834): one call, attempt by attempt *)

maxRetries == 3

\* What one axios.post can come to: a transport error (it throws), a body
\* without choices[0].message.content, or a body with content.
LLMErrors == {"timeout", "http500", "network"}
LLMTexts == {"hello there", " "}
LLMOutcomes ==
    [type : {"error"}, val : LLMErrors] \cup
    [type : {"empty"}, val : {Null}] \cup
    [type : {"content"}, val : LLMTexts]

\* new Error('API 返回空内容') and new Error('Invalid messages array')
EmptyContentError == "API empty content"
InvalidMessagesError == "Invalid messages array"

\* The error object an attempt threw: the transport error of that attempt
ErrorOf(attempt, outcome) == <<outcome.val, attempt>>

LLMIdle ==
    [pc |-> "idle", attempt |-> 0, lastError |-> Null, sleep |-> 0,
     trace |-> <<>>, result |-> Null]

\* (mutant) the loop gives up one attempt later
IsFinalAttempt_late(attempt) == attempt = maxRetries + 1

\* attempt === maxRetries
IsFinalAttempt(attempt) == attempt = maxRetries

\* chatWithLLM(messages) is called: the validation, then the first request
LLMCall(valid) ==
    /\ llm.pc = "idle"
    /\ IF ~valid
       THEN llm' = [llm EXCEPT !.pc = "raised", !.result = InvalidMessagesError]
       ELSE llm' = [llm EXCEPT !.pc = "request", !.attempt = 1]
    /\ UNCHANGED <<storeVars, botVars>>

\* the awaited axios.post of this attempt settles
LLMResponse(outcome) ==
    /\ llm.pc = "request"
    /\ llm.attempt <= maxRetries
    /\ LET trace == Append(llm.trace, outcome)
       IN  CASE outcome.type = "content" ->
                  llm' = [llm EXCEPT !.pc = "returned", !.result = outcome.val,
                                     !.trace = trace]
             [] outcome.type = "empty" ->
                  IF IsFinalAttempt(llm.attempt)
                  THEN \* thrown inside the try: caught, recorded, thrown again
                       llm' = [llm EXCEPT !.pc = "raised",
                                          !.lastError = EmptyContentError,
                                          !.result = EmptyContentError,
                                          !.trace = trace]
                  ELSE llm' = [llm EXCEPT !.pc = "backoff",
                                          !.sleep = 1000 * llm.attempt,
                                          !.trace = trace]
             [] outcome.type = "error" ->
                  LET err == ErrorOf(llm.attempt, outcome)
                  IN  IF IsFinalAttempt(llm.attempt)
                      THEN llm' = [llm EXCEPT !.pc = "raised", !.lastError = err,
                                              !.result = err, !.trace = trace]
                      ELSE llm' = [llm EXCEPT !.pc = "backoff", !.lastError = err,
                                              !.sleep = 1000 * llm.attempt,
                                              !.trace = trace]
    /\ UNCHANGED <<storeVars, botVars>>

\* the setTimeout of the backoff fires: next iteration of the for loop; when
\* the loop condition fails, the `throw lastError` after the loop
LLMBackoffDone ==
    /\ llm.pc = "backoff"
    /\ IF llm.attempt + 1 <= maxRetries
       THEN llm' = [llm EXCEPT !.pc = "request", !.attempt = @ + 1, !.sleep = 0]
       ELSE llm' = [llm EXCEPT !.pc = "raised", !.attempt = @ + 1, !.sleep = 0,
                               !.result = llm.lastError]
    /\ UNCHANGED <<storeVars, botVars>>

\* the caller takes the result; the client is free for the next call
LLMTaken ==
    /\ llm.pc \in {"returned", "raised"}
    /\ llm' = LLMIdle
    /\ UNCHANGED <<storeVars, botVars>>

----------------------------------------------------------------------------
(* The bot process (src/memory.js 709-1314): session maps, handlers, sweeps *)

MaxSweepTicks == 2
MaxReceives == 1

USER_INACTIVE_THRESHOLD == 30 * 60 * 1000
ACTIVE_MESSAGE_INTERVAL == 2 * 60 * 60 * 1000
SweepPeriod == 10 * 60 * 1000
\* the session cleanup (lines 752-774): its threshold and its period
THRESHOLD == 7 * 24 * 60 * 60 * 1000
CleanupPeriod == 60 * 60 * 1000
\* MEMORY_LIMIT when the environment does not set it
DefaultMemoryLimit == 20

\* msg.chat.id of the Telegram update: a JSON number
ChatIds == {"#101", "#102"}
\* msg.from.username || msg.from.first_name || null
UserNameInputs == {Null, "Ming"}

LongText == "<1001 characters>"
\* a text of 1001 characters with a slash in it (a link, say)
LongSlashText == "<1001 characters, one a slash>"
LongReply == "<4097 characters>"
Texts == {"hello", "a/b", LongText, LongSlashText, "/start", "/memory", "/clear",
          "/diary", "/other"}
SchedTexts == {"hello", "/clear"}
\* the chats that write while the sweeps run: user 102 stays silent
SchedChatIds == {"#101"}

\* String.prototype.length of the texts of the model
TextLength(text) ==
    CASE text \in {LongText, LongSlashText} -> 1001
      [] text = LongReply -> 4097
      [] text = "" -> 0
      [] OTHER -> 11

\* String.prototype.trim
Trim(text) == IF text = " " THEN "" ELSE text

\* userMessage.startsWith('/')
StartsWithSlash(text) ==
    text \in {"/start", "/memory", "/clear", "/diary", "/other"}

\* the pattern /\/.*/ of bot.onText: any text with a slash in it
MatchesCommandPattern(text) ==
    StartsWithSlash(text) \/ text \in {"a/b", LongSlashText}

\* what an awaited chatWithLLM comes to for its caller: text, or an error
ChatResults ==
    [ok : {TRUE}, val : LLMTexts \cup {LongReply}] \cup
    [ok : {FALSE}, val : {"error"}]
SchedChatResults == [ok : {TRUE}, val : {"hello there"}]
\* what the chatWithLLM of generateActiveMessage (line 1134) comes to: a text
\* that is not empty (line 808) but may be white space, or an error
ActiveChatResults ==
    [ok : {TRUE}, val : LLMTexts] \cup [ok : {FALSE}, val : {"error"}]

\* Math.floor(Math.random() * n), by the value of Math.random()
RandomDraws == {0, 9}
RandomIndex(r, n) == (r * n) \div 10

PersistFails ==
    {"none", "userInsert", "userCount", "assistantInsert", "assistantCount",
     "chatCount"}

SweepSlots == {1, 2}
TurnSlots == {1, 2}
CommandSlots == {1}

IdleSweep ==
    [pc |-> "idle", id |-> 0, userIds |-> <<>>, i |-> 0, now |-> 0,
     activeMessage |-> Null, interaction |-> 0, log |-> <<>>]
\* buildMessages has not run (or its result is no longer held)
NotBuilt == [at |-> 0, fail |-> "none", lastUserAt |-> 0]
\* `messages` is what buildMessages returned, while chatWithLLM is awaited;
\* `sending` is the text handed to bot.sendMessage; `why` is what threw
IdleTurn ==
    [pc |-> "idle", userId |-> Null, userMessage |-> Null, reply |-> Null,
     messages |-> <<>>, built |-> NotBuilt, sending |-> Null, why |-> Null]
IdleCommand == [pc |-> "idle", userId |-> Null, text |-> Null]

\* the process right after start: empty maps, nothing in flight
BotIdle ==
    /\ lastMessageTime = EmptyMap
    /\ userNames = EmptyMap
    /\ lastInteractionTime = EmptyMap
    /\ lastActiveMessageTime = EmptyMap
    /\ sweeps = [s \in SweepSlots |-> IdleSweep]
    /\ nextSweepAt = Start + SweepPeriod
    /\ turns = [t \in TurnSlots |-> IdleTurn]
    /\ commands = [c \in CommandSlots |-> IdleCommand]
    /\ tasks = <<>>
    /\ outbox = <<>>
    /\ budget = [receives |-> 0, sweeps |-> 0, jumps |-> 0]
    /\ MEMORY_LIMIT = DefaultMemoryLimit
    /\ nextCleanupAt = Start + CleanupPeriod

\* variables that neither the handlers nor the sweeps write
asideVars == <<importantCache, moodCache, revision, ret, ops, llm, MEMORY_LIMIT,
               nextCleanupAt>>

\* one message Telegram accepted.  `interaction` is what lastInteractionTime
\* held for the chat when a proactive message was handed to bot.sendMessage
\* (0 when it held nothing, and for the other kinds of message).
Sent(to, kind, text, by, interaction) ==
    [to |-> to, kind |-> kind, text |-> text, at |-> now, by |-> by,
     interaction |-> interaction]

\* the chat a stored user id belongs to: the number whose text it is
ChatOf(userId) ==
    CASE userId = "101" -> "#101"
      [] userId = "102" -> "#102"
      [] OTHER -> userId

----------------------------------------------------------------------------
(* handleCommand (src/memory.js 1201-1289) *)

\* handleCommand up to its first awaited network call; `names` is userNames
\* as handleMessage, which runs first on the same update, left it
CommandSync(userId, text, names, fail) ==
    LET same == [messages |-> messages, memories |-> memories, moods |-> moods,
                 lastMessageTime |-> lastMessageTime, userNames |-> names,
                 lastInteractionTime |-> lastInteractionTime,
                 lastActiveMessageTime |-> lastActiveMessageTime,
                 command |-> IdleCommand]
        at(pc) == [pc |-> pc, userId |-> userId, text |-> text]
    IN  CASE text = "/start" -> [same EXCEPT !.command = at("send")]
          [] text = "/memory" ->
               [same EXCEPT !.command = IF fail # "none" THEN at("errorSend")
                                        ELSE at("send")]
          [] text = "/clear" ->
               CASE fail = "messages" -> [same EXCEPT !.command = at("errorSend")]
                 [] fail = "memories" ->
                      [same EXCEPT !.messages = clearMessages(userId),
                                   !.command = at("errorSend")]
                 [] fail = "moods" ->
                      [same EXCEPT !.messages = clearMessages(userId),
                                   !.memories = clearMemories(userId),
                                   !.command = at("errorSend")]
                 [] OTHER ->
                      [same EXCEPT !.messages = clearMessages(userId),
                                   !.memories = clearMemories(userId),
                                   !.moods = clearMoods(userId),
                                   !.lastMessageTime = MapDelete(@, userId),
                                   !.userNames = MapDelete(@, userId),
                                   !.lastInteractionTime = MapDelete(@, userId),
                                   !.lastActiveMessageTime = MapDelete(@, userId),
                                   !.command = at("send")]
          [] text = "/diary" ->
               [same EXCEPT !.command =
                    IF fail # "none" THEN at("errorSend")
                    ELSE IF getAllMessages(userId) = <<>> THEN at("send")
                    ELSE at("diaryTyping")]
          [] OTHER ->
               \* default: break; then the finally block
               [same EXCEPT !.lastInteractionTime = MapSet(@, userId, now)]

\* the finally block: lastInteractionTime.set(userId, Date.now())
CommandFinally(c) ==
    /\ lastInteractionTime' = MapSet(lastInteractionTime, commands[c].userId, now)
    /\ commands' = [commands EXCEPT ![c] = IdleCommand]

\* the awaited Telegram call of command c settles
CommandSettled(c, ok) ==
    LET cmd == commands[c]
        deliver == outbox' = Append(outbox, Sent(cmd.userId, cmd.pc, cmd.text, 0, 0))
        goto(pc) == /\ commands' = [commands EXCEPT ![c].pc = pc]
                    /\ UNCHANGED lastInteractionTime
    IN
    /\ cmd.pc \in {"send", "diaryTyping", "diarySend", "diaryFallbackSend",
                   "errorSend"}
    /\ CASE cmd.pc = "diaryTyping" ->
              /\ UNCHANGED outbox
              /\ IF ok THEN goto("diaryLLM") ELSE goto("errorSend")
         [] cmd.pc = "errorSend" ->
              /\ IF ok THEN deliver ELSE UNCHANGED outbox
              /\ CommandFinally(c)
         [] OTHER ->
              IF ok THEN deliver /\ CommandFinally(c)
              ELSE /\ UNCHANGED outbox
                   /\ IF cmd.pc = "diarySend" THEN goto("diaryFallbackSend")
                      ELSE goto("errorSend")
    /\ UNCHANGED <<asideVars, messages, memories, moods, seq, now,
                   lastMessageTime, userNames, lastActiveMessageTime, sweeps,
                   nextSweepAt, turns, tasks, budget>>

\* the chatWithLLM call of /diary settles
CommandDiaryLLM(c, result) ==
    /\ commands[c].pc = "diaryLLM"
    /\ commands' = [commands EXCEPT ![c].pc =
                       IF result.ok THEN "diarySend" ELSE "diaryFallbackSend"]
    /\ UNCHANGED <<asideVars, messages, memories, moods, seq, now, sessionVars,
                   sweeps, nextSweepAt, turns, tasks, outbox, budget>>

----------------------------------------------------------------------------
(* getTimeGap and buildMessages (src/memory.js 922-990) *)

HourMs == 1000 * 60 * 60

\* the null that getTimeGap returns for "no hint"
NoHint == [kind |-> "none", hours |-> 0]

\* getTimeGap: the hint text by its kind, with the hours it mentions
getTimeGap(userId) ==
    LET lastTime == MapGetOr(lastMessageTime, userId, 0)
        hours == (now - lastTime) \div HourMs
    IN  IF lastTime = 0 THEN NoHint
        ELSE IF hours >= 6 THEN [kind |-> "long absence", hours |-> hours]
        ELSE IF hours >= 1 THEN [kind |-> "back after a while", hours |-> 0]
        ELSE NoHint

\* getCurrentMood() of persona.js: a phrase for the time of day
getCurrentMood == "time mood"

\* buildSystemPrompt(args) of persona.js, as the system message made of it:
\* the persona text filled in with the arguments it was given
buildSystemPrompt(userName, importantFacts, chatCount, mood) ==
    [role |-> "system", content |-> "persona", userName |-> userName,
     importantFacts |-> importantFacts, chatCount |-> chatCount, mood |-> mood]

\* buildSystemPrompt({})
DefaultPersona == buildSystemPrompt(Null, <<>>, 0, <<>>)

\* the statement of the store that fails with a storage error while
\* buildMessages runs
BuildFails == {"none", "getRecent", "getImportantFacts", "getChatCount",
               "getRecentMood"}

UserEntry(userMessage) == [role |-> "user", content |-> userMessage]

\* the system entry that carries the time hint
TimeNote(timeHint) ==
    [role |-> "system", content |-> timeHint.kind, hours |-> timeHint.hours]

\* the reads of the store that throw their storage error (getRecent catches
\* its own and returns [])
Throws(fail) == fail \in {"getImportantFacts", "getChatCount", "getRecentMood"}

\* the try block of buildMessages (lines 949-981) when nothing throws
Assemble(userId, userMessage, fail) ==
         LET userName == MapGetOr(userNames, userId, Null)
             recentMemories == getRecentValue(userId, MEMORY_LIMIT,
                                              fail = "getRecent")
             importantFacts == getMemories(userId)
             chatCount == getMessageCount(userId)
             timeHint == getTimeGap(userId)
             recentMood == getMood(moods, userId)
             moodHint == IF recentMood # <<>> /\ recentMood[1].mood # ""
                         THEN <<getCurrentMood, recentMood[1].mood>>
                         ELSE <<getCurrentMood>>
             systemPrompt == buildSystemPrompt(userName, importantFacts,
                                               chatCount, moodHint)
         IN  <<systemPrompt>> \o recentMemories
             \o (IF timeHint # NoHint THEN <<TimeNote(timeHint)>> ELSE <<>>)
             \o <<UserEntry(userMessage)>>

\* (mutant) the catch of line 982 returns the user message alone
buildMessages_bare(userId, userMessage, fail) ==
    IF Throws(fail) THEN <<UserEntry(userMessage)>>
    ELSE Assemble(userId, userMessage, fail)

\* buildMessages(userId, userMessage): the try block, and the catch of line
\* 982 with its minimal sequence
buildMessages(userId, userMessage, fail) ==
    IF Throws(fail) THEN <<DefaultPersona, UserEntry(userMessage)>>
    ELSE Assemble(userId, userMessage, fail)

----------------------------------------------------------------------------
(* handleMessage (src/memory.js 995-1100) *)

TooLongNotice == "too long"
EmptyReplyNotice == "hm..."
naturalReplies == <<"fallback 1", "fallback 2", "fallback 3", "fallback 4">>

\* the catch of line 1089: one of naturalReplies is handed to bot.sendMessage
Fallback(turn, why, r) ==
    [turn EXCEPT !.pc = "fallbackSend", !.why = why, !.messages = <<>>,
                 !.sending = naturalReplies[RandomIndex(r, 4) + 1]]

\* An update with a text arrives.  node-telegram-bot-api emits 'message'
\* first (handleMessage, line 1299) and then runs the onText callbacks
\* (handleCommand, line 1298); each runs up to its first awaited network call.
Arrives(t, c, userId, text, userName, fail) ==
    LET tooLong == TextLength(text) > 1000
        names == IF ~tooLong /\ userName # Null /\ ~MapHas(userNames, userId)
                 THEN MapSet(userNames, userId, userName)
                 ELSE userNames
        turn == IF tooLong
                THEN [IdleTurn EXCEPT !.pc = "tooLongSend", !.userId = userId,
                                      !.userMessage = text,
                                      !.sending = TooLongNotice]
                ELSE IF StartsWithSlash(text) THEN IdleTurn
                ELSE [IdleTurn EXCEPT !.pc = "typing", !.userId = userId,
                                      !.userMessage = text]
        after == CommandSync(userId, text, names, fail)
        isCommand == MatchesCommandPattern(text)
    IN
    /\ turn.pc # "idle" =>
          /\ turns[t].pc = "idle"
          /\ \A t2 \in TurnSlots : t2 < t => turns[t2].pc # "idle"
    /\ (isCommand /\ after.command.pc # "idle") => commands[c].pc = "idle"
    /\ budget' = [budget EXCEPT !.receives = @ + 1]
    /\ turns' = IF turn.pc # "idle" THEN [turns EXCEPT ![t] = turn] ELSE turns
    /\ IF isCommand
       THEN /\ messages' = after.messages
            /\ memories' = after.memories
            /\ moods' = after.moods
            /\ lastMessageTime' = after.lastMessageTime
            /\ userNames' = after.userNames
            /\ lastInteractionTime' = after.lastInteractionTime
            /\ lastActiveMessageTime' = after.lastActiveMessageTime
            /\ commands' = IF after.command.pc # "idle"
                           THEN [commands EXCEPT ![c] = after.command]
                           ELSE commands
       ELSE /\ userNames' = names
            /\ UNCHANGED <<messages, memories, moods, lastMessageTime,
                           lastInteractionTime, lastActiveMessageTime, commands>>
    /\ UNCHANGED <<asideVars, seq, now, sweeps, nextSweepAt, tasks, outbox>>

\* an update arrives, one of the MaxReceives updates of a behaviour
Receive(t, c, userId, text, userName, fail) ==
    /\ budget.receives < MaxReceives
    /\ Arrives(t, c, userId, text, userName, fail)

\* a callback handed to setTimeout(..., 0) by a turn, not yet run
Scheduled(kind, turn) ==
    [kind |-> kind, pc |-> "scheduled", userId |-> turn.userId,
     userMessage |-> turn.userMessage, reply |-> turn.reply]

\* (mutant) the count that decides on the extraction is the length of getAll
extractionDue_capped(table, userId) ==
    Len(SliceLast(SelectSeq(table, LAMBDA r : r.user_id = SqlText(userId)),
                  AllCap)) % 10 = 0

\* memory.getChatCount(userId) % 10 === 0, on the table `table`
extractionDue(table, userId) ==
    Len(SelectSeq(table, LAMBDA r : r.user_id = SqlText(userId))) % 10 = 0

\* (mutant) the setTimeout calls come before the adds
NewTasks_early(turn, persist, table) ==
    (IF extractionDue(table, turn.userId) THEN <<Scheduled("extract", turn)>>
     ELSE <<>>) \o <<Scheduled("mood", turn)>>

\* the setTimeout calls of lines 1068-1086, reached when nothing before them
\* threw; `table` is messages after the two adds
NewTasks(turn, persist, table) ==
    IF persist # "none" THEN <<>>
    ELSE (IF extractionDue(table, turn.userId) THEN <<Scheduled("extract", turn)>>
          ELSE <<>>) \o <<Scheduled("mood", turn)>>

\* lines 1058-1086 after the reply went out: the two adds, the timestamps,
\* the background tasks.  A storage failure leaves what was done before it.
\* memory.add awaits nothing itself, so `await memory.add(...)` resumes in a
\* microtask: no other callback runs in between.
Persist(turn, persist) ==
    LET withUser == insertMessageInto(messages, seq.messages, turn.userId,
                                      "user", turn.userMessage, now)
        withBoth == insertMessageInto(withUser, seq.messages + 1, turn.userId,
                                      "assistant", turn.reply, now)
        stored == CASE persist = "userInsert" -> 0
                    [] persist \in {"userCount", "assistantInsert"} -> 1
                    [] OTHER -> 2
        stamped == persist \in {"none", "chatCount"}
    IN  [messages |-> IF stored = 0 THEN messages
                      ELSE IF stored = 1 THEN withUser ELSE withBoth,
         seq |-> [seq EXCEPT !.messages = @ + stored],
         lastMessageTime |-> IF stamped
                             THEN MapSet(lastMessageTime, turn.userId, now)
                             ELSE lastMessageTime,
         lastInteractionTime |-> IF stamped
                                 THEN MapSet(lastInteractionTime, turn.userId, now)
                                 ELSE lastInteractionTime,
         tasks |-> tasks \o NewTasks(turn, persist, withBoth),
         pc |-> IF persist = "none" THEN "idle" ELSE "fallbackSend"]

\* the created_at of the newest stored message of the user's own, 0 for none
LastUserMessageAt(userId) ==
    LET rows == SelectSeq(RowsOf(messages, userId), LAMBDA r : r.role = "user")
    IN  IF rows = <<>> THEN 0 ELSE rows[Len(rows)].created_at

\* the awaited Telegram call of turn t settles
TurnSettled(t, ok, persist, build, r) ==
    LET turn == turns[t]
        deliver ==
            outbox' = Append(outbox, Sent(turn.userId, turn.pc, turn.sending, 0, 0))
        goto(next) == turns' = [turns EXCEPT ![t] = next]
        quiet == UNCHANGED <<messages, seq, lastMessageTime, lastInteractionTime,
                             tasks>>
        done == Persist(turn, persist)
    IN
    /\ turn.pc \in {"tooLongSend", "typing", "emptySend", "replySend",
                    "fallbackSend"}
    /\ CASE turn.pc = "typing" ->
              \* then buildMessages, and the call of chatWithLLM
              /\ UNCHANGED outbox /\ quiet
              /\ IF ok
                 THEN goto([turn EXCEPT
                        !.pc = "llm",
                        !.messages = buildMessages(turn.userId, turn.userMessage,
                                                   build),
                        !.built = [at |-> now, fail |-> build,
                                   lastUserAt |-> LastUserMessageAt(turn.userId)]])
                 ELSE goto(Fallback(turn, "typing", r))
         [] turn.pc \in {"tooLongSend", "fallbackSend"} ->
              /\ IF ok THEN deliver ELSE UNCHANGED outbox
              /\ quiet /\ goto(IdleTurn)
         [] turn.pc = "emptySend" ->
              /\ IF ok THEN deliver ELSE UNCHANGED outbox
              /\ quiet
              /\ IF ok THEN goto(IdleTurn) ELSE goto(Fallback(turn, "emptySend", r))
         [] turn.pc = "replySend" ->
              IF ok
              THEN /\ deliver
                   /\ messages' = done.messages
                   /\ seq' = done.seq
                   /\ lastMessageTime' = done.lastMessageTime
                   /\ lastInteractionTime' = done.lastInteractionTime
                   /\ tasks' = done.tasks
                   /\ IF done.pc = "idle" THEN goto(IdleTurn)
                      ELSE goto(Fallback(turn, persist, r))
              ELSE UNCHANGED outbox /\ quiet /\ goto(Fallback(turn, "replySend", r))
    /\ UNCHANGED <<asideVars, memories, moods, now, userNames,
                   lastActiveMessageTime, sweeps, nextSweepAt, commands, budget>>

\* (mutant) the error of chatWithLLM is not caught: the handler ends
AfterLLMError_uncaught(turn, r) == IdleTurn

\* chatWithLLM raised (line 1040): the catch of line 1089
AfterLLMError(turn, r) == Fallback(turn, "llm", r)

\* the awaited chatWithLLM of turn t settles (lines 1040-1056)
TurnLLM(t, result, r) ==
    LET turn == [turns[t] EXCEPT !.messages = <<>>, !.built = NotBuilt]
    IN
    /\ turns[t].pc = "llm"
    /\ turns' = [turns EXCEPT ![t] =
          IF ~result.ok THEN AfterLLMError(turn, r)
          ELSE IF TextLength(Trim(result.val)) = 0
               THEN [turn EXCEPT !.pc = "emptySend", !.sending = EmptyReplyNotice]
          ELSE IF TextLength(result.val) > 4096
               \* line 1052 assigns to the const `reply`: a TypeError, caught
               THEN Fallback(turn, "const", r)
          ELSE [turn EXCEPT !.pc = "replySend", !.reply = result.val,
                            !.sending = result.val]]
    /\ UNCHANGED <<asideVars, messages, memories, moods, seq, now, sessionVars,
                   sweeps, nextSweepAt, commands, tasks, outbox, budget>>

\* (mutant) each turn reads the count right after its own second add
CountedByFirst_own(afterOwn, afterAll) == afterOwn

\* The rows memory.getChatCount counts for the turn that resumed first:
\* `afterOwn` is the table after its own second add, `afterAll` the table
\* when line 1068 runs, after the await of line 1060 has handed over to the
\* other turn.
CountedByFirst(afterOwn, afterAll) == afterAll

\* The awaited bot.sendMessage calls of two turns settle in the same
\* event-loop callback (two answers of Telegram read in one pass of the
\* promise scheduler): both continuations are in the microtask queue, so each
\* `await memory.add(...)` of lines 1059-1060 hands over to the other turn.
\* The statements run in the order a b a b a b; no statement fails.
TurnsSettledTogether(a, b) ==
    LET first == turns[a]
        second == turns[b]
        row(k, turn, role, content) ==
            [id |-> seq.messages + k, user_id |-> SqlText(turn.userId),
             role |-> role, content |-> content, created_at |-> now]
        afterOwn == messages \o <<row(1, first, "user", first.userMessage),
                                  row(2, second, "user", second.userMessage),
                                  row(3, first, "assistant", first.reply)>>
        afterAll == Append(afterOwn, row(4, second, "assistant", second.reply))
        stamp(m) == MapSet(MapSet(m, first.userId, now), second.userId, now)
    IN
    /\ a # b
    /\ first.pc = "replySend" /\ second.pc = "replySend"
    /\ outbox' = outbox \o
          <<Sent(first.userId, "replySend", first.sending, 0, 0),
            Sent(second.userId, "replySend", second.sending, 0, 0)>>
    /\ messages' = afterAll
    /\ seq' = [seq EXCEPT !.messages = @ + 4]
    /\ lastMessageTime' = stamp(lastMessageTime)
    /\ lastInteractionTime' = stamp(lastInteractionTime)
    /\ tasks' = tasks \o NewTasks(first, "none", CountedByFirst(afterOwn, afterAll))
                      \o NewTasks(second, "none", afterAll)
    /\ turns' = [turns EXCEPT ![a] = IdleTurn, ![b] = IdleTurn]
    /\ UNCHANGED <<asideVars, memories, moods, now, userNames,
                   lastActiveMessageTime, sweeps, nextSweepAt, commands, budget>>

----------------------------------------------------------------------------
(* generateActiveMessage and initiateActiveConversation (1105-1193) *)

DefaultMessagesEmpty == <<"default 1", "default 2", "default 3", "default 4",
                          "default 5">>
DefaultMessagesError == <<"default 1", "default 2", "default 3">>

\* (mutant) the text of the model is returned whatever it is
generateActiveMessage_unchecked(result, r) ==
    IF result.ok THEN Trim(result.val)
    ELSE DefaultMessagesError[RandomIndex(r, 3) + 1]

\* what generateActiveMessage returns, given what its chatWithLLM came to
generateActiveMessage(result, r) ==
    IF result.ok
    THEN IF Trim(result.val) # "" THEN Trim(result.val)
         ELSE DefaultMessagesEmpty[RandomIndex(r, 5) + 1]
    ELSE DefaultMessagesError[RandomIndex(r, 3) + 1]

\* the condition of line 1173
ShouldInitiate(t, lastInteraction, lastActiveMsg) ==
    /\ t - lastInteraction > USER_INACTIVE_THRESHOLD
    /\ t - lastActiveMsg > ACTIVE_MESSAGE_INTERVAL

\* The for loop of the sweep from the i-th user on, up to the next await or
\* to the end.  `stamps` is lastActiveMessageTime as the loop finds it.  Each
\* examination is logged: what the sweep read, what lastInteractionTime held
\* for the chat of that user (0 for nothing), and what became of the user.
RECURSIVE SweepLoop(_, _, _)
SweepLoop(sw, i, stamps) ==
    IF i > Len(sw.userIds) THEN [sw EXCEPT !.pc = "done", !.i = i]
    ELSE LET userId == sw.userIds[i]
             lastInteraction == MapGetOr(lastInteractionTime, userId, 0)
             lastActiveMsg == MapGetOr(stamps, userId, 0)
             go == ShouldInitiate(now, lastInteraction, lastActiveMsg)
             exam == [userId |-> userId, now |-> now,
                      lastInteraction |-> lastInteraction,
                      lastActiveMsg |-> lastActiveMsg,
                      interaction |->
                          MapGetOr(lastInteractionTime, ChatOf(userId), 0),
                      attempted |-> go,
                      outcome |-> IF go THEN "pending" ELSE "skipped",
                      stampBefore |-> 0, stampAfter |-> 0]
         IN  IF go
             THEN [sw EXCEPT !.pc = "generating", !.i = i, !.now = now,
                             !.log = Append(@, exam)]
             ELSE SweepLoop([sw EXCEPT !.log = Append(@, exam)], i + 1, stamps)

\* the interval fires: getUserIds, then the loop up to its first await
SweepStart(s, fail) ==
    /\ now >= nextSweepAt
    /\ sweeps[s].pc \in {"idle", "done"}
    /\ \A s2 \in SweepSlots : s2 < s => sweeps[s2].pc \notin {"idle", "done"}
    /\ nextSweepAt' = nextSweepAt + SweepPeriod
    /\ budget' = [budget EXCEPT !.sweeps = @ + 1]
    /\ LET fresh == [IdleSweep EXCEPT !.id = budget.sweeps + 1]
       IN  sweeps' = [sweeps EXCEPT ![s] =
              IF fail THEN [fresh EXCEPT !.pc = "done"]
              ELSE SweepLoop([fresh EXCEPT !.userIds = getUserIdsRows], 1,
                             lastActiveMessageTime)]
    /\ UNCHANGED <<asideVars, messages, memories, moods, seq, now, sessionVars,
                   turns, commands, tasks, outbox>>

\* the awaited generateActiveMessage of sweep s settles; bot.sendMessage is
\* called with what it returned
SweepGenerated(s, result, r) ==
    /\ sweeps[s].pc = "generating"
    /\ LET userId == sweeps[s].userIds[sweeps[s].i]
       IN  sweeps' = [sweeps EXCEPT
              ![s].pc = "sending",
              ![s].activeMessage = generateActiveMessage(result, r),
              ![s].interaction = MapGetOr(lastInteractionTime, ChatOf(userId), 0)]
    /\ UNCHANGED <<asideVars, messages, memories, moods, seq, now, sessionVars,
                   nextSweepAt, turns, commands, tasks, outbox, budget>>

\* (mutant) the catch of line 1185 ends the sweep
AfterSendError_abort(sw, stamps) == [sw EXCEPT !.pc = "done"]

\* the catch of line 1185 logs, and the for loop goes on with the next user
AfterSendError(sw, stamps) == SweepLoop(sw, sw.i + 1, stamps)

\* the awaited bot.sendMessage of sweep s settles
SweepSendSettled(s, ok) ==
    LET sw == sweeps[s]
        userId == sw.userIds[sw.i]
        k == Len(sw.log)
        before == MapGetOr(lastActiveMessageTime, userId, 0)
        stamps == IF ok THEN MapSet(lastActiveMessageTime, userId, sw.now)
                  ELSE lastActiveMessageTime
        logged == [sw EXCEPT !.activeMessage = Null, !.interaction = 0,
                      !.log[k].outcome = IF ok THEN "delivered" ELSE "failed",
                      !.log[k].stampBefore = before,
                      !.log[k].stampAfter = MapGetOr(stamps, userId, 0)]
    IN
    /\ sw.pc = "sending"
    /\ lastActiveMessageTime' = stamps
    /\ outbox' = IF ok
                 THEN Append(outbox,
                        Sent(userId, "proactive", sw.activeMessage, sw.id,
                             sw.interaction))
                 ELSE outbox
    /\ sweeps' = [sweeps EXCEPT ![s] =
                     IF ok THEN SweepLoop(logged, sw.i + 1, stamps)
                     ELSE AfterSendError(logged, stamps)]
    /\ UNCHANGED <<asideVars, messages, memories, moods, seq, now,
                   lastMessageTime, userNames, lastInteractionTime, nextSweepAt,
                   turns, commands, tasks, budget>>

\* Time goes by, whatever is awaited meanwhile.  A callback that is due runs
\* before the clock moves again.
TimePasses ==
    /\ now < nextSweepAt
    /\ now < Start + MaxSweepTicks * TimeStep
    /\ now' = now + TimeStep
    /\ UNCHANGED <<asideVars, messages, memories, moods, seq, botVars>>

----------------------------------------------------------------------------
(* The background tasks of a turn (src/memory.js 839-917, 1070-1086) *)

RemoveAt(q, i) == SubSeq(q, 1, i - 1) \o SubSeq(q, i + 1, Len(q))

\* A text whose characters matter is held as its lines (what split('\n')
\* yields), a line as its runs of equal characters: "- aaaa" is a run of
\* one "-", one " " and four "a".
Run(ch, n) == [ch |-> ch, n |-> n]

BulletMarks == {"-", "*"}
WhiteSpace == {" "}

RECURSIVE LineLength(_)
LineLength(line) ==
    IF line = <<>> THEN 0 ELSE line[1].n + LineLength(Tail(line))

\* line.replace(/^[-*]\s*/, '') of line 870: one bullet mark at the very
\* start of the line, and the white space that follows it
StripBullet(line) ==
    IF line = <<>> \/ line[1].ch \notin BulletMarks THEN line
    ELSE IF line[1].n > 1 THEN <<Run(line[1].ch, line[1].n - 1)>> \o Tail(line)
    ELSE IF Len(line) > 1 /\ line[2].ch \in WhiteSpace THEN Tail(Tail(line))
    ELSE Tail(line)

\* String.prototype.trim on a line
TrimLine(line) ==
    LET first == IF line # <<>> /\ line[1].ch \in WhiteSpace THEN 2 ELSE 1
        last == IF line # <<>> /\ line[Len(line)].ch \in WhiteSpace
                THEN Len(line) - 1 ELSE Len(line)
    IN  SubSeq(line, first, last)

\* line.replace(/^[-*]\s*/, '').trim()
CleanLine(line) == TrimLine(StripBullet(line))

\* the model's answer for "nothing to remember": the one character of line 864
NothingToRemember == <<<<Run("nothing", 1)>>>>
\* the empty string
EmptyResponse == <<<<>>>>

BulletLine == <<Run("-", 1), Run(" ", 1), Run("a", 4)>>
ShortBulletLine == <<Run("-", 1), Run(" ", 1), Run("a", 3)>>
IndentedBulletLine == <<Run(" ", 2), Run("-", 1), Run(" ", 1), Run("a", 2)>>
Line99 == <<Run("b", 99)>>
Line100 == <<Run("b", 100)>>

\* what the model answers to the extraction prompt
ExtractionResponses ==
    {NothingToRemember, EmptyResponse, <<BulletLine>>,
     <<BulletLine, ShortBulletLine, BulletLine>>, <<Line99, Line100>>,
     <<IndentedBulletLine>>, NothingToRemember \o <<BulletLine>>}

\* what the awaited chatWithLLM of extractImportantFacts comes to
ExtractionResults ==
    [ok : {TRUE}, val : ExtractionResponses] \cup [ok : {FALSE}, val : {<<>>}]

\* which addImportantFact of the loop of lines 874-876 raises, if any
ExtractFails == {0, 1, 2}

\* the facts extractImportantFacts takes from the model's answer (lines
\* 864-871): bullets stripped, longer than 3 and shorter than 100 characters
ExtractedFacts(result) ==
    IF ~result.ok \/ result.val = EmptyResponse \/ result.val = NothingToRemember
    THEN <<>>
    ELSE SelectSeq([i \in 1..Len(result.val) |-> CleanLine(result.val[i])],
                   LAMBDA line : /\ LineLength(line) > 3
                                 /\ LineLength(line) < 100
                                 /\ line # <<>>)

\* the facts the loop has handed to addImportantFact when it ends: all of
\* them, or those before the call that raised
Recorded(facts, fail) ==
    IF fail = 0 \/ fail > Len(facts) THEN facts ELSE SubSeq(facts, 1, fail - 1)

\* the INSERTs of the facts, one after the other, on the table `table`
RECURSIVE insertFacts(_, _, _, _)
insertFacts(table, lastId, userId, facts) ==
    IF facts = <<>> THEN [table |-> table, lastId |-> lastId]
    ELSE LET dup == \E i \in 1..Len(table) :
                        /\ table[i].user_id = SqlText(userId)
                        /\ table[i].fact = facts[1]
         IN  IF dup THEN insertFacts(table, lastId, userId, Tail(facts))
             ELSE insertFacts(
                    Append(table, [id |-> lastId + 1, user_id |-> SqlText(userId),
                                   fact |-> facts[1], created_at |-> now]),
                    lastId + 1, userId, Tail(facts))

\* The oldest setTimeout(..., 0) callback runs, up to its chatWithLLM call:
\* extractImportantFacts returns early on fewer than 2 messages.
TaskStart ==
    \E i \in 1..Len(tasks) :
        /\ tasks[i].pc = "scheduled"
        /\ \A j \in 1..(i - 1) : tasks[j].pc # "scheduled"
        /\ tasks' = IF /\ tasks[i].kind = "extract"
                       /\ Len(SliceLast(getAllValue(tasks[i].userId, FALSE), 20)) < 2
                    THEN RemoveAt(tasks, i)
                    ELSE [tasks EXCEPT ![i].pc = "llm"]
        /\ UNCHANGED <<asideVars, messages, memories, moods, seq, now, sessionVars,
                       sweeps, nextSweepAt, turns, commands, outbox, budget>>

\* the awaited chatWithLLM of a task settles: the facts or the mood are
\* stored; an error of the model or of the store is logged and dropped.
\* `fail` is one of ExtractFails for an extraction, of MoodFails for a mood.
TaskLLM(i, result, fail) ==
    LET task == tasks[i]
        facts == insertFacts(memories, seq.memories, task.userId,
                             Recorded(ExtractedFacts(result), fail))
        storesMood == result.ok /\ result.val # "" /\ fail # "insert"
    IN
    /\ i \in 1..Len(tasks)
    /\ task.pc = "llm"
    /\ tasks' = RemoveAt(tasks, i)
    /\ IF task.kind = "extract"
       THEN /\ memories' = facts.table
            /\ seq' = [seq EXCEPT !.memories = facts.lastId]
            /\ UNCHANGED moods
       ELSE IF task.kind = "mood" /\ storesMood
       THEN /\ moods' = IF fail = "trim"
                        THEN insertMood(task.userId, result.val, now)
                        ELSE deleteOldMoods(insertMood(task.userId, result.val, now),
                                            task.userId)
            /\ seq' = [seq EXCEPT !.moods = @ + 1]
            /\ UNCHANGED memories
       ELSE UNCHANGED <<memories, moods, seq>>
    /\ UNCHANGED <<asideVars, messages, now, sessionVars, sweeps, nextSweepAt,
                   turns, commands, outbox, budget>>

----------------------------------------------------------------------------
(* The session cleanup (src/memory.js 752-774) and the clock of long waits *)

MaxJumps == 1

\* how long nothing happens: 30 minutes, 2 hours, 6 hours, 8 days
Gaps == {30 * 60 * 1000, 2 * HourMs, 6 * HourMs, 8 * 24 * HourMs}

\* the latest firing of the cleanup interval that is due
CleanupFiredAt == now - ((now - nextCleanupAt) % CleanupPeriod)

\* the entries the first loop (lines 758-762) leaves in lastMessageTime
CleanupTimes(t) ==
    [u \in {x \in DOMAIN lastMessageTime : ~(t - lastMessageTime[x] > THRESHOLD)}
        |-> lastMessageTime[u]]

\* the entries the second loop (lines 765-771) leaves in userNames: it looks
\* the user up in lastMessageTime as the first loop left it
CleanupNames(t, times) ==
    [u \in {x \in DOMAIN userNames :
              ~(MapGetOr(times, x, 0) # 0 /\ t - MapGetOr(times, x, 0) > THRESHOLD)}
        |-> userNames[u]]

\* The cleanup interval fires.  Firings that fell into a wait during which
\* nothing else ran are taken together with the latest one: what they would
\* have deleted, the latest one deletes.
Cleanup ==
    /\ now >= nextCleanupAt
    /\ LET t == CleanupFiredAt
           times == CleanupTimes(t)
       IN  /\ lastMessageTime' = times
           /\ userNames' = CleanupNames(t, times)
           /\ nextCleanupAt' = t + CleanupPeriod
    /\ UNCHANGED <<storeVars, llm, lastInteractionTime, lastActiveMessageTime,
                   sweeps, nextSweepAt, turns, commands, tasks, outbox, budget,
                   MEMORY_LIMIT>>

\* Nothing happens for a while: the network calls that were awaited have
\* settled, no timer callback is waiting to run.  A cleanup that is due runs
\* before the next wait.
TimeJump(d) ==
    /\ budget.jumps < MaxJumps
    /\ now < nextCleanupAt
    /\ \A t \in TurnSlots : turns[t].pc = "idle"
    /\ \A c \in CommandSlots : commands[c].pc = "idle"
    /\ tasks = <<>>
    /\ now' = now + d
    /\ budget' = [budget EXCEPT !.jumps = @ + 1]
    /\ UNCHANGED <<messages, memories, moods, seq, importantCache, moodCache,
                   revision, ret, ops, llm, sessionVars, sweeps, nextSweepAt,
                   turns, commands, tasks, outbox, MEMORY_LIMIT, nextCleanupAt>>

----------------------------------------------------------------------------
(* The model client on its own: one call after another *)

InitLLM ==
    /\ messages = <<>> /\ memories = <<>> /\ moods = <<>>
    /\ seq = [messages |-> 0, memories |-> 0, moods |-> 0]
    /\ importantCache = EmptyMap /\ moodCache = EmptyMap
    /\ revision = "validated"
    /\ now = Start
    /\ ret = Ret("init", Null, Null, FALSE, Null)
    /\ ops = 0
    /\ llm = LLMIdle
    /\ BotIdle

NextLLM ==
    \/ \E valid \in BOOLEAN : LLMCall(valid)
    \/ \E o \in LLMOutcomes : LLMResponse(o)
    \/ LLMBackoffDone
    \/ LLMTaken

SpecLLM == InitLLM /\ [][NextLLM]_vars

----------------------------------------------------------------------------
(* The store on its own: any caller, any order of calls *)

PreFacts == <<"likes cats", "named Ming">>

PreMessages(n) ==
    [i \in 1..n |->
        [id |-> i, user_id |-> "u1",
         role |-> IF i % 2 = 1 THEN "user" ELSE "assistant",
         content |-> IF i % 3 = 0 THEN "a" ELSE "b",
         created_at |-> Start - TimeStep + (i - 1) \div 2]]

PreMemories(n) ==
    [i \in 1..n |->
        [id |-> i, user_id |-> "u1", fact |-> PreFacts[i],
         created_at |-> Start - TimeStep + i]]

PreMoods(n) ==
    [i \in 1..n |->
        [id |-> i, user_id |-> "u1",
         mood |-> IF i % 2 = 1 THEN "calm" ELSE "tired",
         created_at |-> Start - TimeStep + (i - 1) \div 2]]

InitStore ==
    /\ \E snap \in Snapshots :
          /\ messages = PreMessages(snap.msgs)
          /\ memories = PreMemories(snap.facts)
          /\ moods = PreMoods(snap.moods)
          /\ seq = [messages |-> snap.msgs, memories |-> snap.facts,
                    moods |-> snap.moods]
    /\ importantCache = EmptyMap
    /\ moodCache = EmptyMap
    /\ revision \in Revisions
    /\ now = Start
    /\ ret = Ret("init", Null, Null, FALSE, Null)
    /\ ops = 0
    /\ llm = LLMIdle
    /\ BotIdle

NextStore ==
    \/ \E u \in Users, r \in Roles, c \in Contents, f \in AddFails : add(u, r, c, f)
    \/ \E u \in Users, x \in Facts, f \in FactFails : addImportantFact(u, x, f)
    \/ \E u \in Users, m \in Moods, f \in MoodFails : addMood(u, m, f)
    \/ \E u \in Users : getImportantFacts(u)
    \/ \E u \in Users : getRecentMood(u)
    \/ \E u \in Users, n \in Limits, f \in BOOLEAN : getRecent(u, n, f)
    \/ \E u \in Users, f \in BOOLEAN : getAll(u, f)
    \/ \E u \in Users : getChatCount(u)
    \/ \E u \in Users, f \in ClearFails : clear(u, f)
    \/ getUserIds
    \/ \E u \in Users, x \in Facts, f \in FactFails : addImportantFact_cached(u, x, f)
    \/ \E u \in Users, m \in Moods, f \in MoodFails : addMood_cached(u, m, f)
    \/ \E u \in Users : getImportantFacts_cached(u)
    \/ \E u \in Users : getRecentMood_cached(u)
    \/ \E u \in Users, f \in ClearFails : clear_cached(u, f)
    \/ Tick

SpecStore == InitStore /\ [][NextStore]_vars

----------------------------------------------------------------------------
(* The store across a clear: messages stored, cleared, stored again *)

MaxClearOps == 2

NextClear ==
    \/ \E u \in Users, r \in Roles, c \in Contents, f \in AddFails :
          ops < MaxClearOps /\ DoAdd(u, r, c, f)
    \/ \E u \in Users, f \in ClearFails : ops < MaxClearOps /\ DoClear(u, f)
    \/ \E u \in Users, f \in ClearFails : ops < MaxClearOps /\ DoClearCached(u, f)
    \/ \E u \in Users : getImportantFacts(u)
    \/ \E u \in Users : getRecentMood(u)
    \/ \E u \in Users, n \in Limits, f \in BOOLEAN : getRecent(u, n, f)
    \/ \E u \in Users, f \in BOOLEAN : getAll(u, f)
    \/ \E u \in Users : getChatCount(u)
    \/ getUserIds
    \/ \E u \in Users : getImportantFacts_cached(u)
    \/ \E u \in Users : getRecentMood_cached(u)

SpecClear == InitStore /\ [][NextClear]_vars

\* A database file that two users have written to in turn: four messages
\* and one fact each, and 50 moods each (the most that addMood keeps).
SharedMessages ==
    [i \in 1..8 |->
        [id |-> i, user_id |-> IF i % 4 \in {1, 2} THEN "u1" ELSE "u2",
         role |-> IF i % 2 = 1 THEN "user" ELSE "assistant",
         content |-> IF i % 3 = 0 THEN "a" ELSE "b",
         created_at |-> Start - TimeStep + i]]

SharedMemories ==
    [i \in 1..2 |->
        [id |-> i, user_id |-> IF i = 1 THEN "u1" ELSE "u2", fact |-> PreFacts[i],
         created_at |-> Start - TimeStep + i]]

SharedMoods ==
    [i \in 1..(2 * MoodOffset) |->
        [id |-> i, user_id |-> IF i % 2 = 1 THEN "u1" ELSE "u2",
         mood |-> IF i % 4 \in {1, 2} THEN "calm" ELSE "tired",
         created_at |-> Start - TimeStep + i]]

InitShared ==
    /\ messages = SharedMessages
    /\ memories = SharedMemories
    /\ moods = SharedMoods
    /\ seq = [messages |-> 8, memories |-> 2, moods |-> 2 * MoodOffset]
    /\ importantCache = EmptyMap
    /\ moodCache = EmptyMap
    /\ revision \in Revisions
    /\ now = Start
    /\ ret = Ret("init", Null, Null, FALSE, Null)
    /\ ops = 0
    /\ llm = LLMIdle
    /\ BotIdle

\* the calls that write, and the reads of the cached revision, which fill
\* its caches
NextShared ==
    \/ \E u \in Users, r \in Roles, c \in Contents, f \in AddFails : add(u, r, c, f)
    \/ \E u \in Users, x \in Facts, f \in FactFails : addImportantFact(u, x, f)
    \/ \E u \in Users, m \in Moods, f \in MoodFails : addMood(u, m, f)
    \/ \E u \in Users, f \in ClearFails : clear(u, f)
    \/ \E u \in Users, x \in Facts, f \in FactFails : addImportantFact_cached(u, x, f)
    \/ \E u \in Users, m \in Moods, f \in MoodFails : addMood_cached(u, m, f)
    \/ \E u \in Users : getImportantFacts_cached(u)
    \/ \E u \in Users : getRecentMood_cached(u)
    \/ \E u \in Users, f \in ClearFails : clear_cached(u, f)

SpecShared == InitShared /\ [][NextShared]_vars

----------------------------------------------------------------------------
(* The bot with its sweeps: inbound messages, commands, the interval *)

\* what earlier runs left in the database: a short history of two users
KnownUsers == <<"101", "102">>
PreHistory ==
    [i \in 1..4 |->
        [id |-> i, user_id |-> KnownUsers[(i + 1) \div 2],
         role |-> IF i % 2 = 1 THEN "user" ELSE "assistant",
         content |-> IF i % 2 = 1 THEN "hello" ELSE "hello there",
         created_at |-> Start - 12 * TimeStep]]

\* The process has been up for a while.  Either no proactive message has gone
\* out yet, or the sweep of 110 minutes ago sent one to user 101.
InitSched ==
    /\ messages = PreHistory /\ memories = <<>> /\ moods = <<>>
    /\ seq = [messages |-> 4, memories |-> 0, moods |-> 0]
    /\ importantCache = EmptyMap /\ moodCache = EmptyMap
    /\ revision = "validated"
    /\ now = Start
    /\ ret = Ret("init", Null, Null, FALSE, Null)
    /\ ops = 0
    /\ llm = LLMIdle
    /\ lastMessageTime = EmptyMap
    /\ userNames = EmptyMap
    /\ lastInteractionTime = EmptyMap
    /\ \E earlier \in BOOLEAN :
          /\ lastActiveMessageTime =
                IF earlier THEN MapSet(EmptyMap, "101", Start - 11 * TimeStep)
                ELSE EmptyMap
          /\ outbox =
                IF earlier
                THEN <<[to |-> "101", kind |-> "proactive", text |-> "default 1",
                        at |-> Start - 11 * TimeStep, by |-> 0,
                        interaction |-> 0]>>
                ELSE <<>>
    /\ sweeps = [s \in SweepSlots |-> IdleSweep]
    /\ nextSweepAt = Start + SweepPeriod
    /\ turns = [t \in TurnSlots |-> IdleTurn]
    /\ commands = [c \in CommandSlots |-> IdleCommand]
    /\ tasks = <<>>
    /\ budget = [receives |-> 0, sweeps |-> 0, jumps |-> 0]
    /\ MEMORY_LIMIT = DefaultMemoryLimit
    /\ nextCleanupAt = Start + CleanupPeriod

NextSched ==
    \/ \E t \in TurnSlots, c \in CommandSlots, u \in SchedChatIds, x \in SchedTexts :
          Receive(t, c, u, x, "Ming", "none")
    \/ \E t \in TurnSlots : TurnSettled(t, TRUE, "none", "none", 0)
    \/ \E t \in TurnSlots, res \in SchedChatResults : TurnLLM(t, res, 0)
    \/ \E c \in CommandSlots : CommandSettled(c, TRUE)
    \/ \E s \in SweepSlots, fail \in BOOLEAN : SweepStart(s, fail)
    \/ \E s \in SweepSlots, res \in SchedChatResults : SweepGenerated(s, res, 0)
    \/ \E s \in SweepSlots, ok \in BOOLEAN : SweepSendSettled(s, ok)
    \/ TimePasses

SpecSched == InitSched /\ [][NextSched]_vars

\* The sweeps alone, with every outcome of the generation: no user writes.
NextActive ==
    \/ \E s \in SweepSlots, fail \in BOOLEAN : SweepStart(s, fail)
    \/ \E s \in SweepSlots, res \in ActiveChatResults, r \in RandomDraws :
          SweepGenerated(s, res, r)
    \/ \E s \in SweepSlots, ok \in BOOLEAN : SweepSendSettled(s, ok)
    \/ TimePasses

SpecActive == InitSched /\ [][NextActive]_vars

----------------------------------------------------------------------------
(* The bot with its turns: inbound messages, commands, tasks, the cleanup *)

\* the chat whose history the database holds
Regular == "#101"

\* how many messages earlier turns of the user have stored
HistorySizes == {0, 8, 100}
\* MEMORY_LIMIT as the environment may set it
MemoryLimits == {DefaultMemoryLimit, -1}

\* the last of the earlier turns was 10 minutes before Start
HistoryAt == Start - TimeStep

TurnHistory(n) ==
    [i \in 1..n |->
        [id |-> i, user_id |-> SqlText(Regular),
         role |-> IF i % 2 = 1 THEN "user" ELSE "assistant",
         content |-> IF i % 2 = 1 THEN "hello" ELSE "hello there",
         created_at |-> HistoryAt]]

\* The process has been up for a while: the session maps hold what the
\* earlier turns of the user left in them.
InitTurn ==
    /\ \E n \in HistorySizes :
          /\ messages = TurnHistory(n)
          /\ seq = [messages |-> n, memories |-> 0, moods |-> 0]
          /\ lastMessageTime =
                IF n = 0 THEN EmptyMap ELSE MapSet(EmptyMap, Regular, HistoryAt)
          /\ lastInteractionTime =
                IF n = 0 THEN EmptyMap ELSE MapSet(EmptyMap, Regular, HistoryAt)
          /\ userNames =
                IF n = 0 THEN EmptyMap ELSE MapSet(EmptyMap, Regular, "Ming")
    /\ memories = <<>> /\ moods = <<>>
    /\ importantCache = EmptyMap /\ moodCache = EmptyMap
    /\ revision = "validated"
    /\ now = Start
    /\ ret = Ret("init", Null, Null, FALSE, Null)
    /\ ops = 0
    /\ llm = LLMIdle
    /\ lastActiveMessageTime = EmptyMap
    /\ sweeps = [s \in SweepSlots |-> IdleSweep]
    /\ nextSweepAt = Start + SweepPeriod
    /\ turns = [t \in TurnSlots |-> IdleTurn]
    /\ commands = [c \in CommandSlots |-> IdleCommand]
    /\ tasks = <<>>
    /\ outbox = <<>>
    /\ budget = [receives |-> 0, sweeps |-> 0, jumps |-> 0]
    /\ MEMORY_LIMIT \in MemoryLimits
    /\ nextCleanupAt = Start + CleanupPeriod

NextTurn ==
    \/ \E t \in TurnSlots, c \in CommandSlots, u \in ChatIds, x \in Texts,
          name \in UserNameInputs, f \in ClearFails :
          Receive(t, c, u, x, name, f)
    \/ \E t \in TurnSlots, ok \in BOOLEAN, p \in PersistFails, b \in BuildFails,
          r \in RandomDraws : TurnSettled(t, ok, p, b, r)
    \/ \E t \in TurnSlots, res \in ChatResults, r \in RandomDraws : TurnLLM(t, res, r)
    \/ \E c \in CommandSlots, ok \in BOOLEAN : CommandSettled(c, ok)
    \/ \E c \in CommandSlots, res \in ChatResults : CommandDiaryLLM(c, res)
    \/ TaskStart
    \/ \E i \in 1..Len(tasks), res \in ChatResults, f \in MoodFails :
          tasks[i].kind = "mood" /\ TaskLLM(i, res, f)
    \/ \E i \in 1..Len(tasks), res \in ExtractionResults, f \in ExtractFails :
          tasks[i].kind = "extract" /\ TaskLLM(i, res, f)
    \/ Cleanup
    \/ \E d \in Gaps : TimeJump(d)

SpecTurn == InitTurn /\ [][NextTurn]_vars

----------------------------------------------------------------------------
(* Two messages of one user in quick succession: overlapping turns *)

MaxArrivals == 2

\* how many messages earlier turns of the user have stored
OverlapHistories == {0, 6, 8}

InitOverlap ==
    /\ \E n \in OverlapHistories :
          /\ messages = TurnHistory(n)
          /\ seq = [messages |-> n, memories |-> 0, moods |-> 0]
          /\ lastMessageTime =
                IF n = 0 THEN EmptyMap ELSE MapSet(EmptyMap, Regular, HistoryAt)
          /\ lastInteractionTime =
                IF n = 0 THEN EmptyMap ELSE MapSet(EmptyMap, Regular, HistoryAt)
          /\ userNames =
                IF n = 0 THEN EmptyMap ELSE MapSet(EmptyMap, Regular, "Ming")
    /\ memories = <<>> /\ moods = <<>>
    /\ importantCache = EmptyMap /\ moodCache = EmptyMap
    /\ revision = "validated"
    /\ now = Start
    /\ ret = Ret("init", Null, Null, FALSE, Null)
    /\ ops = 0
    /\ llm = LLMIdle
    /\ lastActiveMessageTime = EmptyMap
    /\ sweeps = [s \in SweepSlots |-> IdleSweep]
    /\ nextSweepAt = Start + SweepPeriod
    /\ turns = [t \in TurnSlots |-> IdleTurn]
    /\ commands = [c \in CommandSlots |-> IdleCommand]
    /\ tasks = <<>>
    /\ outbox = <<>>
    /\ budget = [receives |-> 0, sweeps |-> 0, jumps |-> 0]
    /\ MEMORY_LIMIT = DefaultMemoryLimit
    /\ nextCleanupAt = Start + CleanupPeriod

\* an update of the user arrives, one of MaxArrivals
Arrival(t, c, text) ==
    /\ budget.receives < MaxArrivals
    /\ Arrives(t, c, Regular, text, "Ming", "none")

NextOverlap ==
    \/ \E t \in TurnSlots, c \in CommandSlots : Arrival(t, c, "hello")
    \/ \E t \in TurnSlots, ok \in BOOLEAN, p \in PersistFails :
          TurnSettled(t, ok, p, "none", 0)
    \/ \E t \in TurnSlots, res \in ChatResults : TurnLLM(t, res, 0)
    \/ \E a, b \in TurnSlots : TurnsSettledTogether(a, b)

SpecOverlap == InitOverlap /\ [][NextOverlap]_vars

\* A message of the user and then /clear, while the turn of the message or
\* the background tasks it scheduled are still running.
InFlightText == IF budget.receives = 0 THEN "hello" ELSE "/clear"

NextInFlight ==
    \/ \E t \in TurnSlots, c \in CommandSlots : Arrival(t, c, InFlightText)
    \/ \E t \in TurnSlots : TurnSettled(t, TRUE, "none", "none", 0)
    \/ \E t \in TurnSlots, res \in SchedChatResults : TurnLLM(t, res, 0)
    \/ \E c \in CommandSlots, ok \in BOOLEAN : CommandSettled(c, ok)
    \/ TaskStart
    \/ \E i \in 1..Len(tasks), res \in SchedChatResults :
          tasks[i].kind = "mood" /\ TaskLLM(i, res, "none")
    \/ \E i \in 1..Len(tasks) :
          tasks[i].kind = "extract" /\
            TaskLLM(i, [ok |-> TRUE, val |-> <<BulletLine>>], 0)

SpecInFlight == InitOverlap /\ [][NextInFlight]_vars

----------------------------------------------------------------------------
(* Claims about the store *)

NoDuplicates(s) == \A i, j \in 1..Len(s) : i # j => s[i] # s[j]

\* C1: for every user, whatever addImportantFact calls were made (duplicates
\* included, from any flow), the facts getImportantFacts returns hold no fact
\* text twice.
C1_FactsNoDuplicates ==
    /\ \A u \in Users : NoDuplicates(getMemories(u))
    /\ ret.op = "getImportantFacts" => NoDuplicates(ret.val)

\* A fact that is already stored was submitted again, and accepted without error.
C1_Witness ==
    /\ ret.op = "addImportantFact" /\ ~ret.err /\ ops > 0
    /\ seq.memories = Len(PreFacts)
    /\ \E i \in 1..Len(PreFacts) : ret.arg = PreFacts[i] /\ ret.user = "u1"
    /\ Len(getMemories("u1")) = Len(PreFacts)

LastMoodOf(u) ==
    LET rows == RowsOf(moods, u)
    IN  IF rows = <<>> THEN Null ELSE rows[Len(rows)].mood

C4_RecentAtMostCap ==
    ret.op = "getRecent" =>
        /\ Len(ret.val) <= 50
        /\ ret.arg >= 0 => Len(ret.val) <= Min(ret.arg, 50)

\* the stored messages of a user, oldest first (insertion order), as getAll shows them
Chronological(u) == RoleContent(RowsOf(messages, u))

\* C5: getRecent(userId, n) is oldest-first and a suffix of getAll(userId),
\* which is the most recent at most 100 stored messages, oldest first.
C5_RecentSuffixOfAll ==
    /\ \A u \in Users : getAllValue(u, FALSE) = SliceLast(Chronological(u), 100)
    /\ ret.op = "getRecent" => IsSuffix(ret.val, getAllValue(ret.user, FALSE))

----------------------------------------------------------------------------
(* Claims about the model client *)

Failed(outcome) == outcome.type \in {"error", "empty"}

\* C6: chatWithLLM makes attempts until the first success and never more than
\* 3.  A success within the first 3 attempts is returned after exactly that
\* many attempts; when all 3 fail the error of the third attempt is raised (the
\* synthesized empty-content error when the third body was empty) and there is
\* no fourth attempt.
C6_RetryUntilSuccessAtMost3 ==
    LET n == Len(llm.trace) IN
    /\ n <= 3
    /\ llm.attempt <= 3
    /\ \A i \in 1..(n - 1) : Failed(llm.trace[i])
    /\ llm.pc \in {"request", "backoff"} => \A i \in 1..n : Failed(llm.trace[i])
    /\ llm.pc = "request" => llm.attempt = n + 1
    /\ llm.pc = "returned" =>
          /\ n >= 1 /\ llm.trace[n].type = "content"
          /\ llm.result = llm.trace[n].val
    /\ (llm.pc = "raised" /\ llm.result # InvalidMessagesError) =>
          /\ n = 3 /\ Failed(llm.trace[3])
          /\ llm.result = IF llm.trace[3].type = "empty" THEN EmptyContentError
                          ELSE <<llm.trace[3].val, 3>>
    /\ (llm.pc = "raised" /\ llm.result = InvalidMessagesError) => n = 0

\* fail, fail, succeed: the content is returned after exactly 3 attempts
C6_Witness ==
    /\ llm.pc = "returned" /\ Len(llm.trace) = 3
    /\ llm.trace[1].type = "error" /\ llm.trace[2].type = "empty"
    /\ llm.result = "hello there"

\* three empty bodies: the synthesized error is raised after exactly 3 attempts
C6_WitnessAllFail ==
    /\ llm.pc = "raised" /\ Len(llm.trace) = 3
    /\ llm.trace[3].type = "empty" /\ llm.result = EmptyContentError

----------------------------------------------------------------------------
(* Claims about the sweeps *)

\* the examinations that sweeps in progress or just returned have logged
Examinations ==
    {<<s, k>> \in SweepSlots \X (1..Len(getUserIdsRows) + 2) :
        k <= Len(sweeps[s].log)}

\* how many proactive messages sweep number `id` got delivered to userId
DeliveredBy(id, userId) ==
    Cardinality({i \in 1..Len(outbox) :
        /\ outbox[i].kind = "proactive"
        /\ outbox[i].by = id
        /\ outbox[i].to = userId})

\* more than 30 minutes since the last interaction of the user's chat
IdleLongEnough(e) ==
    e.interaction = 0 \/ e.now - e.interaction > USER_INACTIVE_THRESHOLD

\* more than 2 hours since the stamp of the last proactive message
NotContactedLately(e) ==
    e.lastActiveMsg = 0 \/ e.now - e.lastActiveMsg > ACTIVE_MESSAGE_INTERVAL

\* C7: in a sweep, a known user is sent a proactive message if and only if,
\* when the user is examined, more than 30 minutes have passed since the
\* user's last interaction and more than 2 hours since the last proactive
\* send; when it is sent, exactly one message is delivered in that sweep and
\* lastActiveMessageTime is updated; when the proactive-send gate fails
\* nothing is sent.  (Examinations whose delivery failed are left aside.)
C7_SentIffBothGates ==
    \A x \in Examinations :
        LET sw == sweeps[x[1]]
            e == sw.log[x[2]]
        IN  e.outcome \in {"skipped", "delivered"} =>
              /\ e.outcome = "delivered" <=>
                    (IdleLongEnough(e) /\ NotContactedLately(e))
              /\ e.outcome = "delivered" =>
                    /\ DeliveredBy(sw.id, e.userId) = 1
                    /\ e.stampAfter = e.now
              /\ ~NotContactedLately(e) =>
                    /\ e.outcome = "skipped"
                    /\ DeliveredBy(sw.id, e.userId) = 0

\* the user (the stored id) a delivered message went to
UserOf(m) == SqlText(m.to)

\* C8: any two proactive messages delivered to the same user are more than
\* 2 hours apart, after any sequence of sweeps, turns and commands.
C8_ProactiveTwoHoursApart ==
    \A i, j \in 1..Len(outbox) :
        (/\ i < j
         /\ outbox[i].kind = "proactive" /\ outbox[j].kind = "proactive"
         /\ UserOf(outbox[i]) = UserOf(outbox[j]))
        => outbox[j].at - outbox[i].at > ACTIVE_MESSAGE_INTERVAL

\* C9: whenever a proactive message is delivered to a user, more than 30
\* minutes have passed since that user's last completed turn or command.
C9_IdleWhenDelivered ==
    \A i \in 1..Len(outbox) :
        outbox[i].kind = "proactive" =>
            \/ outbox[i].interaction = 0
            \/ outbox[i].at - outbox[i].interaction > USER_INACTIVE_THRESHOLD

\* C10: a delivery failure for one user does not stop the sweep.  When a
\* sweep has returned, every user it read from the store has been examined,
\* every user that passed both gates has had a delivery attempted (one
\* message delivered unless the delivery itself failed), and a failed
\* delivery left that user's lastActiveMessageTime as it was.
C10_FailureDoesNotStopSweep ==
    \A s \in SweepSlots :
        LET sw == sweeps[s]
        IN  sw.pc = "done" =>
              /\ Len(sw.log) = Len(sw.userIds)
              /\ \A k \in 1..Len(sw.log) :
                    LET e == sw.log[k]
                    IN  /\ e.userId = sw.userIds[k]
                        /\ e.attempted =
                              ShouldInitiate(e.now, e.lastInteraction, e.lastActiveMsg)
                        /\ e.attempted <=> e.outcome \in {"delivered", "failed"}
                        /\ ~e.attempted <=> e.outcome = "skipped"
                        /\ e.outcome = "failed" =>
                              /\ e.stampAfter = e.stampBefore
                              /\ DeliveredBy(sw.id, e.userId) = 0
                        /\ e.outcome = "delivered" =>
                              DeliveredBy(sw.id, e.userId) = 1

\* a sweep has returned: the delivery to its first user failed, and its
\* second user was messaged all the same
C10_Witness ==
    \E s \in SweepSlots :
        /\ sweeps[s].pc = "done"
        /\ Len(sweeps[s].log) = 2
        /\ sweeps[s].log[1].outcome = "failed"
        /\ sweeps[s].log[1].stampAfter = 0
        /\ sweeps[s].log[2].outcome = "delivered"
        /\ lastActiveMessageTime = MapSet(EmptyMap, "102", sweeps[s].log[2].now)

\* a sweep between its first await and its return
InProgress(s) == sweeps[s].pc \in {"generating", "sending"}

\* C11: at most one scheduler sweep is in progress at any time: a sweep that
\* runs longer than the 10-minute period delays the start of the next one, so
\* that no user is examined by two sweeps concurrently.
C11_OneSweepAtATime ==
    Cardinality({s \in SweepSlots : InProgress(s)}) <= 1

----------------------------------------------------------------------------
(* Claims about the session maps and the cleanup *)

\* the session maps, by SessionState field
SessionFields ==
    <<lastMessageTime, userNames, lastInteractionTime, lastActiveMessageTime>>
SessionFieldsAfter ==
    <<lastMessageTime', userNames', lastInteractionTime', lastActiveMessageTime'>>

\* the keys of map m that belong to the users in `users` (as a number or as text)
KeysOf(m, users) ==
    {k \in DOMAIN m : \E u \in users : SqlText(k) = SqlText(u)}

\* C12: after a session-cleanup sweep has run, no SessionState field
\* (lastMessageTime, display name, lastInteractionTime, lastProactiveSendTime)
\* remains for a user whose last message time is more than 7 days old, and the
\* entries of the users active within the last 7 days are left unchanged.
C12_CleanupEvictsStaleSessions ==
    [][ nextCleanupAt' # nextCleanupAt =>
          LET t == CleanupFiredAt
              stale == {u \in DOMAIN lastMessageTime :
                          t - lastMessageTime[u] > THRESHOLD}
          IN  \A f \in 1..4 :
                 /\ KeysOf(SessionFieldsAfter[f], stale) = {}
                 /\ \A k \in DOMAIN SessionFields[f] \ KeysOf(SessionFields[f], stale) :
                       /\ k \in DOMAIN SessionFieldsAfter[f]
                       /\ SessionFieldsAfter[f][k] = SessionFields[f][k]
      ]_vars

----------------------------------------------------------------------------
(* Claims about the context of a turn *)

\* turn t goes from the typing indicator to the model call: buildMessages ran
Builds(t) == turns[t].pc = "typing" /\ turns'[t].pc = "llm"

\* the entries of a built sequence between the first and the last, less the
\* time note when there is one
HasNote(m) == Len(m) >= 3 /\ m[Len(m) - 1].role = "system"
HistoryPart(m) == SubSeq(m, 2, Len(m) - 1 - (IF HasNote(m) THEN 1 ELSE 0))

\* C13: for every user and every non-empty user message, buildMessages
\* returns a sequence whose first entry is the system persona message and
\* whose last entry is the new user message; between them are at most 50
\* history messages in chronological order (the most recent of the stored
\* ones), followed by at most one synthetic system time note.
C13_ContextShape ==
    [][ \A t \in TurnSlots : Builds(t) =>
          LET m == turns'[t].messages
              hist == HistoryPart(m)
          IN  /\ Len(m) >= 2
              /\ m[1].role = "system" /\ m[1].content = "persona"
              /\ m[Len(m)] = UserEntry(turns[t].userMessage)
              /\ Len(hist) <= 50
              /\ \A i \in 1..Len(hist) : hist[i].role \in Roles
              /\ IsSuffix(hist, Chronological(turns[t].userId))
      ]_vars

\* what the store that reads the database on every call returns
FactsInDatabase(u) == getMemories(u)
MoodInDatabase(u) ==
    LET mood == getMood(moods, u)
    IN  IF mood # <<>> THEN mood[1].mood ELSE Null

\* C14: the facts and the most recent mood the store hands out equal the
\* persisted state at call time: after any interleaving of addImportantFact,
\* addMood, clear, getImportantFacts and getRecentMood, the store with
\* importantCache and moodCache returns what the store that reads the
\* database on every call returns (no stale cache after a write or a clear).
C14_CacheEqualsDatabase ==
    revision = "cached" =>
        /\ ret.op = "getImportantFacts" => ret.val = FactsInDatabase(ret.user)
        /\ ret.op = "getRecentMood" => ret.val = MoodInDatabase(ret.user)

\* the time note of a built sequence, by its kind
NoteOf(m) == IF HasNote(m) THEN m[Len(m) - 1].content ELSE "none"

\* C15: when the gap since the user's last message is at least 6 hours the
\* assembled context holds the long-absence note; for a gap in [1h, 6h) it
\* holds the lighter note; for a gap under 1 hour it holds no time note.  This
\* holds after any sequence of earlier turns, commands and cleanup sweeps.
\* (The gap is taken from the user's newest stored message; a build in which
\* a store read fails is left aside.)
C15_TimeNoteByGap ==
    [][ \A t \in TurnSlots :
          (Builds(t) /\ turns'[t].built.fail = "none"
                     /\ LastUserMessageAt(turns[t].userId) # 0) =>
             LET gap == now - LastUserMessageAt(turns[t].userId)
                 note == NoteOf(turns'[t].messages)
             IN  /\ gap >= 6 * HourMs => note = "long absence"
                 /\ (gap >= HourMs /\ gap < 6 * HourMs) => note = "back after a while"
                 /\ gap < HourMs => note = "none"
      ]_vars

\* the two-entry sequence: default persona, the raw user message
Minimal(userMessage) == <<DefaultPersona, UserEntry(userMessage)>>

\* C16 (as claimed): when any store read fails while buildMessages assembles
\* the context, buildMessages does not raise: it returns exactly the
\* two-entry sequence [default persona, raw user message], and the turn
\* proceeds to the model call.
C16_AnyFailureGivesMinimal ==
    [][ \A t \in TurnSlots :
          (Builds(t) /\ turns'[t].built.fail # "none") =>
             turns'[t].messages = Minimal(turns[t].userMessage)
      ]_vars

\* C16 (amended): when getImportantFacts, getChatCount or getRecentMood fails,
\* buildMessages returns exactly the two-entry sequence; when the read of
\* getRecent fails, getRecent returns an empty history and buildMessages
\* returns the personalised system message, the time note if one is due, and
\* the user message.  In both cases nothing is raised and the turn proceeds to
\* the model call with a sequence that begins with a persona message and ends
\* with the raw user message.
C16_FailureFallback ==
    [][ \A t \in TurnSlots : Builds(t) =>
          LET m == turns'[t].messages
              f == turns'[t].built.fail
              u == turns[t].userId
          IN  /\ Len(m) >= 2
              /\ m[1].role = "system" /\ m[1].content = "persona"
              /\ m[Len(m)] = UserEntry(turns[t].userMessage)
              /\ f \in {"getImportantFacts", "getChatCount", "getRecentMood"} =>
                    m = Minimal(turns[t].userMessage)
              /\ f = "getRecent" =>
                    /\ HistoryPart(m) = <<>>
                    /\ m[1] = buildSystemPrompt(MapGetOr(userNames, u, Null),
                                                getMemories(u), getMessageCount(u),
                                                m[1].mood)
                    /\ NoteOf(m) = getTimeGap(u).kind
      ]_vars

\* the count of the messages failed for a user with a name and a history:
\* the model is called with the minimal sequence
C16_Witness ==
    \E t \in TurnSlots :
        /\ turns[t].pc = "llm"
        /\ turns[t].built.fail = "getChatCount"
        /\ turns[t].userId = Regular
        /\ MapHas(userNames, Regular) /\ getMessageCount(Regular) > 0
        /\ turns[t].messages = Minimal(turns[t].userMessage)

\* the read of getRecent failed for a user with a history: the model is
\* called with the personalised persona message and no history
C16_WitnessGetRecent ==
    \E t \in TurnSlots :
        /\ turns[t].pc = "llm"
        /\ turns[t].built.fail = "getRecent"
        /\ getMessageCount(turns[t].userId) > 0
        /\ Len(turns[t].messages) = 2
        /\ turns[t].messages[1].chatCount > 0

----------------------------------------------------------------------------
(* Claims about the turns *)

FallbackTexts == {naturalReplies[i] : i \in 1..Len(naturalReplies)}

\* what a turn persists, stamps and schedules
TurnEffects == <<messages, seq, lastMessageTime, lastInteractionTime, tasks>>

\* C17: when the model client raises during a turn, handleMessage hands
\* exactly one reply from the fixed fallback list to Telegram, propagates no
\* error, persists no message for the turn, schedules no extraction or mood
\* task, and leaves lastMessageTime and lastInteractionTime as they were.
C17_LLMErrorGivesOneFallback ==
    [][ \A t \in TurnSlots :
          /\ (turns[t].pc = "llm" /\ turns'[t] # turns[t]) =>
                /\ turns'[t].pc \in {"emptySend", "replySend", "fallbackSend"}
                /\ turns'[t].pc = "fallbackSend" =>
                      /\ turns'[t].sending \in FallbackTexts
                      /\ UNCHANGED <<TurnEffects, outbox>>
          /\ (turns[t].pc = "fallbackSend" /\ turns[t].why = "llm"
                                           /\ turns'[t] # turns[t]) =>
                /\ turns'[t] = IdleTurn
                /\ UNCHANGED TurnEffects
                /\ \/ UNCHANGED outbox
                   \/ outbox' = Append(outbox,
                         Sent(turns[t].userId, "fallbackSend", turns[t].sending, 0, 0))
      ]_vars

\* the model client raised in a turn of a user with a history: a fallback
\* reply is on its way, nothing was stored, stamped or scheduled
C17_Witness ==
    /\ \E t \in TurnSlots :
          /\ turns[t].pc = "fallbackSend" /\ turns[t].why = "llm"
          /\ turns[t].sending = naturalReplies[4]
          /\ turns[t].userId = Regular
    /\ outbox = <<>>
    /\ messages = TurnHistory(8) /\ tasks = <<>>
    /\ lastMessageTime[Regular] = HistoryAt
    /\ lastInteractionTime[Regular] = HistoryAt

\* what an oversized text must leave alone
Untouched ==
    <<messages, memories, moods, seq, userNames, lastMessageTime,
      lastInteractionTime, tasks>>

\* C18: an inbound text longer than 1000 characters is answered with the
\* too-long notice and nothing else happens: the model client is not invoked,
\* no message is persisted, and no session state (display name,
\* lastMessageTime, lastInteractionTime) is changed.
C18_TooLongOnlyNotice ==
    [][ \A t \in TurnSlots :
          /\ (turns[t].pc = "idle" /\ turns'[t].pc # "idle"
                                   /\ TextLength(turns'[t].userMessage) > 1000) =>
                /\ turns'[t].pc = "tooLongSend"
                /\ turns'[t].sending = TooLongNotice
                /\ UNCHANGED <<Untouched, outbox>>
          /\ (turns[t].pc = "tooLongSend" /\ turns'[t] # turns[t]) =>
                /\ turns'[t] = IdleTurn
                /\ UNCHANGED Untouched
                /\ \/ UNCHANGED outbox
                   \/ outbox' = Append(outbox,
                         Sent(turns[t].userId, "tooLongSend", TooLongNotice, 0, 0))
          /\ turns'[t].pc \in {"typing", "llm", "replySend", "emptySend"} =>
                TextLength(turns'[t].userMessage) <= 1000
      ]_vars

\* the reply of turn t is delivered in this step
Delivers(t) ==
    outbox' = Append(outbox, Sent(turns[t].userId, "replySend", turns[t].reply, 0, 0))

\* the rows the two adds of turn t insert
UserRow(t) ==
    [id |-> seq.messages + 1, user_id |-> SqlText(turns[t].userId),
     role |-> "user", content |-> turns[t].userMessage, created_at |-> now]
AssistantRow(t) ==
    [id |-> seq.messages + 2, user_id |-> SqlText(turns[t].userId),
     role |-> "assistant", content |-> turns[t].reply, created_at |-> now]

\* turn t has both timestamps set to the present in this step
Stamps(t) ==
    /\ lastMessageTime' = MapSet(lastMessageTime, turns[t].userId, now)
    /\ lastInteractionTime' = MapSet(lastInteractionTime, turns[t].userId, now)

\* the callbacks handed to setTimeout in this step
NewlyScheduled == SubSeq(tasks', Len(tasks) + 1, Len(tasks'))

\* C19: within one turn the events occur in this order: the reply is
\* delivered, then the user message and the assistant reply are persisted
\* (user first), then the session timestamps are updated, and only then are
\* the extraction and mood tasks scheduled; no model call of a background
\* task starts before the reply of its own turn was delivered and persisted.
\* Whatever of this a step has done, it has done all that comes before it.
C19_ReplyPersistStampSchedule ==
    [][ /\ \A t \in TurnSlots :
              (turns[t].pc = "replySend" /\ turns'[t] # turns[t]) =>
                 /\ messages' \in {messages, Append(messages, UserRow(t)),
                                   Append(Append(messages, UserRow(t)),
                                          AssistantRow(t))}
                 /\ messages' # messages => Delivers(t)
                 /\ (lastMessageTime' # lastMessageTime
                      \/ lastInteractionTime' # lastInteractionTime) =>
                       /\ Stamps(t)
                       /\ Len(messages') = Len(messages) + 2
                 /\ tasks' # tasks =>
                       /\ Stamps(t)
                       /\ Len(messages') = Len(messages) + 2
                       /\ Len(tasks') > Len(tasks)
                       /\ SubSeq(tasks', 1, Len(tasks)) = tasks
        /\ Len(tasks') > Len(tasks) =>
              /\ \E t \in TurnSlots : turns[t].pc = "replySend" /\ turns'[t] = IdleTurn
              /\ \A i \in 1..Len(NewlyScheduled) : NewlyScheduled[i].pc = "scheduled"
        /\ \A i \in 1..Len(tasks') :
              \E k \in 1..Len(outbox') :
                 /\ outbox'[k].kind = "replySend"
                 /\ outbox'[k].to = tasks'[i].userId
                 /\ outbox'[k].text = tasks'[i].reply
      ]_vars

\* a turn has succeeded and the model call of its mood task is under way: the
\* reply is in the outbox, both rows are stored, the stamps are set
C19_Witness ==
    /\ Len(tasks) = 1 /\ tasks[1].kind = "mood" /\ tasks[1].pc = "llm"
    /\ tasks[1].userId = Regular
    /\ Len(outbox) = 1 /\ outbox[1].kind = "replySend"
    /\ outbox[1].text = tasks[1].reply
    /\ Len(messages) = 2
    /\ messages[1].role = "user" /\ messages[2].role = "assistant"
    /\ messages[2].content = tasks[1].reply
    /\ lastMessageTime[Regular] = messages[2].created_at

\* C20: for a user whose turns do not overlap and all succeed, fact extraction
\* is scheduled after a turn exactly when the user's total stored message
\* count (uncapped) is then a multiple of 10, and mood analysis is scheduled
\* after every completed turn.
C20_ExtractionEveryTenMoodEveryTurn ==
    [][ \A t \in TurnSlots :
          (turns[t].pc = "replySend" /\ turns'[t] = IdleTurn) =>
             LET u == turns[t].userId
                 count == Len(RowsOf(messages', u))
                 due == count % 10 = 0
                 kinds == [i \in 1..Len(NewlyScheduled) |-> NewlyScheduled[i].kind]
             IN  /\ kinds = IF due THEN <<"extract", "mood">> ELSE <<"mood">>
                 /\ \A i \in 1..Len(NewlyScheduled) :
                       /\ NewlyScheduled[i].userId = u
                       /\ NewlyScheduled[i].pc = "scheduled"
      ]_vars

\* the turn that brought the user's stored messages from 8 to 10 has
\* scheduled the extraction and the mood analysis
C20_Witness ==
    /\ getMessageCount(Regular) = 10
    /\ Len(tasks) = 2
    /\ tasks[1].kind = "extract" /\ tasks[2].kind = "mood"
    /\ tasks[1].pc = "scheduled" /\ tasks[2].pc = "scheduled"
    /\ tasks[1].userId = Regular

\* the turn that brought the stored messages from 100 to 102 has scheduled
\* the mood analysis alone
C20_WitnessUncapped ==
    /\ getMessageCount(Regular) = 102
    /\ Len(tasks) = 1 /\ tasks[1].kind = "mood" /\ tasks[1].userId = Regular

----------------------------------------------------------------------------
(* Claims about overlapping turns *)

\* how many callbacks of the kind are in the timer queue
CountKind(kind) == Cardinality({i \in 1..Len(tasks) : tasks[i].kind = kind})

\* the last four stored rows are those of two turns whose adds alternated
Interleaved ==
    /\ Len(messages) >= 4
    /\ LET n == Len(messages)
       IN  /\ messages[n - 3].role = "user" /\ messages[n - 2].role = "user"
           /\ messages[n - 1].role = "assistant" /\ messages[n].role = "assistant"

\* two messages of the user have arrived and their turns have both
\* completed: each has scheduled its mood analysis
BothTurnsDone == budget.receives = 2 /\ CountKind("mood") = 2

\* the four adds of the two turns took the count to or past a multiple of 10
BoundaryPassed ==
    \E c \in (getMessageCount(Regular) - 3)..getMessageCount(Regular) : c % 10 = 0

\* C21: with two overlapping turns of the same user near a multiple-of-10
\* boundary, the extraction trigger fires exactly once when the post-reply
\* blocks of the turns run one after the other, and zero times or twice when
\* their adds interleave: twice when the count after all four adds is the
\* multiple of 10, zero times when the multiple was passed in between.
C21_TriggerZeroOrTwice ==
    BothTurnsDone =>
        LET fired == CountKind("extract")
            count == getMessageCount(Regular)
        IN  /\ ~BoundaryPassed => fired = 0
            /\ (BoundaryPassed /\ ~Interleaved) => fired = 1
            /\ (BoundaryPassed /\ Interleaved) =>
                  fired = IF count % 10 = 0 THEN 2 ELSE 0

\* two overlapping turns took the count from 8 to 12 and no extraction was
\* scheduled
C21_Witness ==
    /\ BothTurnsDone /\ Interleaved
    /\ getMessageCount(Regular) = 12
    /\ CountKind("extract") = 0

\* two overlapping turns took the count from 6 to 10 and the extraction was
\* scheduled twice
C21_WitnessTwice ==
    /\ BothTurnsDone /\ Interleaved
    /\ getMessageCount(Regular) = 10
    /\ CountKind("extract") = 2

----------------------------------------------------------------------------
(* Claims about clear *)

\* clear has just completed for the user ret.user
JustCleared == ret.op = "clear" /\ ~ret.err

\* what getImportantFacts and getRecentMood of the running revision return
FactsServed(u) ==
    IF revision = "cached" /\ MapHas(importantCache, u) THEN importantCache[u]
    ELSE getMemories(u)
MoodServed(u) ==
    IF revision = "cached" /\ MapHas(moodCache, u) THEN moodCache[u]
    ELSE MoodInDatabase(u)

\* the read that the step makes comes back empty
ReadsEmpty ==
    /\ ret'.op \in {"getImportantFacts", "getAll", "getRecent"} => ret'.val = <<>>
    /\ ret'.op = "getRecentMood" => ret'.val = Null
    /\ ret'.op = "getChatCount" => ret'.val = 0

\* C22: immediately after clear(userId) completes, getImportantFacts is
\* empty, getAll and getRecent(n) are empty, getRecentMood is null and
\* getChatCount is 0, whatever was stored or cached before; the user is in
\* getUserIds() again only after a new message of theirs is stored.
C22_ClearEmptiesEveryRead ==
    /\ [](JustCleared =>
            /\ FactsServed(ret.user) = <<>>
            /\ MoodServed(ret.user) = Null
            /\ getAllValue(ret.user, FALSE) = <<>>
            /\ \A n \in Limits : getRecentValue(ret.user, n, FALSE) = <<>>
            /\ getMessageCount(ret.user) = 0
            /\ ret.user \notin getUserIdsStmt)
    /\ [][ /\ (JustCleared /\ ret'.op # "clear" /\ ret'.user = ret.user) =>
                 ReadsEmpty
           /\ (JustCleared /\ ret'.op = "getUserIds") => ret.user \notin ret'.val
           /\ \A u \in Users :
                 (u \notin getUserIdsStmt /\ u \in getUserIdsStmt') =>
                    /\ ret'.op = "add" /\ ret'.user = u
                    /\ Len(RowsOf(messages', u)) = 1
         ]_vars

\* the cached revision has cleared a user who had two facts stored, and the
\* read after it has found none
C22_Witness ==
    /\ revision = "cached"
    /\ ret.op = "getImportantFacts" /\ ret.user = "u1" /\ ret.val = <<>>
    /\ seq.memories = 2 /\ seq.messages = 100
    /\ getMessageCount("u1") = 0
    /\ ops = 1

\* the user whose 100 messages were cleared has stored a new one and is
\* listed again
C22_WitnessReappears ==
    /\ ret.op = "getUserIds" /\ "u1" \in ret.val
    /\ seq.messages = 101 /\ getMessageCount("u1") = 1
    /\ getMemories("u1") = <<>>

\* command c, a /clear whose deletes all ran, ends in this step: its
\* confirmation has been accepted by Telegram or the error path has ended
ClearHandled(c) ==
    /\ commands[c].text = "/clear"
    /\ commands[c].pc = "send"
    /\ commands'[c] = IdleCommand

\* C23: after the /clear command has been handled for a user, the user's
\* durable records are gone and no SessionState entry of that user remains
\* in any of the four session maps (lastMessageTime, display name,
\* lastInteractionTime, lastProactiveSendTime).
C23_ClearWipesSession ==
    [][ \A c \in CommandSlots :
          ClearHandled(c) =>
             LET u == commands[c].userId
             IN  /\ RowsOf(messages', u) = <<>>
                 /\ RowsOf(memories', u) = <<>>
                 /\ RowsOf(moods', u) = <<>>
                 /\ \A i \in 1..4 : KeysOf(SessionFieldsAfter[i], {u}) = {}
      ]_vars

----------------------------------------------------------------------------
(* Claims about the writes of the store *)

\* the step is a call of the method `op` of the store
Calls(op) == ops' = ops + 1 /\ ret'.op = op

\* C24: addMood is one logical operation: when it fails at any step (invalid
\* input, failure of the insert, failure of the trim) the error is raised to
\* the caller and the user's stored moods are unchanged, so the count never
\* exceeds 50 even after a failed call.  (Stated for the revision that
\* validates its input, lines 602-617.)
C24_FailedAddMoodChangesNothing ==
    [][ (Calls("addMood") /\ revision = "validated") =>
          /\ (ret'.user = "" \/ ret'.arg = "") => ret'.err
          /\ ret'.err =>
                /\ moods' = moods
                /\ Len(RowsOf(moods', ret'.user)) <= MoodOffset
      ]_vars

\* the pair (userId, fact) is stored
Stored(userId, fact) ==
    \E i \in 1..Len(memories) :
        memories[i].user_id = SqlText(userId) /\ memories[i].fact = fact

\* C25: addImportantFact is idempotent: a call with a (userId, fact) pair
\* that is already stored raises no error (the storage working) and leaves
\* the stored facts of every user, their creation times and the order
\* getImportantFacts returns unchanged; when the storage fails, the call
\* raises and the stored facts are unchanged as well.
C25_AddFactIdempotent ==
    [][ \A u \in Users, x \in Facts :
          Stored(u, x) =>
             /\ (addImportantFact(u, x, "none") \/ addImportantFact_cached(u, x, "none"))
                   => /\ ~ret'.err
                      /\ memories' = memories
                      /\ seq'.memories = seq.memories
                      /\ \A v \in Users : FactsServed(v)' = FactsServed(v)
             /\ (Calls("addImportantFact") /\ ret'.user = u /\ ret'.arg = x)
                   => memories' = memories
      ]_vars

\* the older of the two stored facts of a user was submitted again: no
\* error, and getImportantFacts still lists the newer fact first
C25_Witness ==
    /\ ret.op = "addImportantFact" /\ ~ret.err /\ ops = 1
    /\ ret.user = "u1" /\ ret.arg = PreFacts[1]
    /\ getMemories("u1") = <<PreFacts[2], PreFacts[1]>>
    /\ \A i \in 1..Len(memories) : memories[i].created_at < now

----------------------------------------------------------------------------
(* Claims about the background tasks *)

\* the facts the step has stored
NewFacts ==
    [k \in 1..(Len(memories') - Len(memories)) |-> memories'[Len(memories) + k].fact]

\* C26: every fact that fact extraction records has, after stripping a
\* leading bullet marker and surrounding whitespace, a length strictly
\* greater than 3 and strictly less than 100; a model response equal to the
\* nothing-to-remember signal records zero facts and raises no error, and a
\* failure of the model call records zero facts and raises no error.
C26_RecordedFactsBounded ==
    [][ /\ \A k \in 1..Len(NewFacts) :
              /\ LineLength(CleanLine(NewFacts[k])) > 3
              /\ LineLength(CleanLine(NewFacts[k])) < 100
        /\ \A i \in 1..Len(tasks), f \in ExtractFails :
              (/\ tasks[i].kind = "extract"
               /\ \/ TaskLLM(i, [ok |-> TRUE, val |-> NothingToRemember], f)
                  \/ TaskLLM(i, [ok |-> FALSE, val |-> <<>>], f))
                 => memories' = memories /\ tasks' = RemoveAt(tasks, i)
      ]_vars

----------------------------------------------------------------------------
(* Claims about the list of users *)

\* C27: getUserIds() returns the distinct set of every user that has ever
\* been observed by the store (every user for whom a message was ever
\* appended), after any sequence of add, addImportantFact, addMood and clear
\* operations: what it returns is the set of users with a stored message,
\* and no operation takes a user out of that set.
C27_UserIdsKeepEveryUser ==
    /\ [](ret.op = "getUserIds" => ret.val = getUserIdsStmt)
    /\ [][getUserIdsStmt \subseteq getUserIdsStmt']_vars

----------------------------------------------------------------------------
(* Claims about the generation of the proactive message *)

Elements(q) == {q[i] : i \in 1..Len(q)}

\* the generation of sweep s ends in this step, with a failure of the model
\* call or with a text that is empty once trimmed
GenerationFellBack(s) ==
    \E res \in ActiveChatResults, r \in RandomDraws :
        /\ SweepGenerated(s, res, r)
        /\ ~res.ok \/ Trim(res.val) = ""

\* generateActiveMessage has returned one of its hand-authored messages and
\* initiateActiveConversation goes on to send it
FallbackReturned(s) ==
    /\ sweeps'[s].pc = "sending"
    /\ sweeps'[s].activeMessage \in
           Elements(DefaultMessagesEmpty) \cup Elements(DefaultMessagesError)
    /\ sweeps'[s].activeMessage # ""

\* the delivery that sweep s awaits settles in this step
DeliverySettles(s) == sweeps[s].pc = "sending" /\ sweeps'[s] # sweeps[s]

\* how many proactive messages sweep number `id` has got delivered to userId
\* when the step is over
DeliveredAfter(id, userId) ==
    Cardinality({i \in 1..Len(outbox') :
        /\ outbox'[i].kind = "proactive"
        /\ outbox'[i].by = id
        /\ outbox'[i].to = userId})

\* that sweep has got exactly one message to its current user, the text it
\* generated, and the user is stamped with the time of the examination
SentOnceAndStamped(s) ==
    LET sw == sweeps[s]
        userId == sw.userIds[sw.i]
    IN  /\ Len(outbox') = Len(outbox) + 1
        /\ SubSeq(outbox', 1, Len(outbox)) = outbox
        /\ outbox'[Len(outbox')].text = sw.activeMessage
        /\ sw.activeMessage # ""
        /\ DeliveredAfter(sw.id, userId) = 1
        /\ MapHas(lastActiveMessageTime', userId)
        /\ lastActiveMessageTime'[userId] = sw.now

\* nothing has gone out and the stamps are as they were
NothingSent(s) ==
    /\ outbox' = outbox
    /\ lastActiveMessageTime' = lastActiveMessageTime

\* C28 as stated: when the model call of generateActiveMessage fails or
\* yields empty or whitespace-only text, a hand-authored message is returned
\* instead of an error, so a user who passes both gates is still sent exactly
\* one non-empty proactive message in that sweep and lastActiveMessageTime
\* is stamped.
C28_FallbackAlwaysSent ==
    [][\A s \in SweepSlots :
          /\ GenerationFellBack(s) => FallbackReturned(s)
          /\ DeliverySettles(s) => SentOnceAndStamped(s)
      ]_vars

\* C28, amended: when the model call of generateActiveMessage fails or yields
\* empty or whitespace-only text, a hand-authored message is returned instead
\* of an error and is handed to bot.sendMessage; if Telegram accepts it, the
\* user has been sent exactly one non-empty proactive message in that sweep
\* and lastActiveMessageTime is stamped; if the delivery fails, no message
\* goes out and the stamp is left as it was.
C28_FallbackSentIfDelivered ==
    [][\A s \in SweepSlots :
          /\ GenerationFellBack(s) => FallbackReturned(s)
          /\ SweepSendSettled(s, TRUE) => SentOnceAndStamped(s)
          /\ SweepSendSettled(s, FALSE) => NothingSent(s)
          /\ DeliverySettles(s) =>
                SweepSendSettled(s, TRUE) \/ SweepSendSettled(s, FALSE)
      ]_vars

\* the model call failed, the third message of the shorter list went out to
\* user 102 and the user is stamped with the time of the sweep
C28_Witness ==
    \E s \in SweepSlots, i \in 1..Len(outbox) :
        /\ outbox[i].text = DefaultMessagesError[3]
        /\ outbox[i].to = "102" /\ outbox[i].by = sweeps[s].id
        /\ DeliveredBy(sweeps[s].id, "102") = 1
        /\ lastActiveMessageTime["102"] = outbox[i].at

----------------------------------------------------------------------------
(* Claims about what a turn delivers and stores *)

\* the messages handleMessage got delivered: replies, placeholders, notices
\* and fallback replies
HandlerKinds == {"replySend", "emptySend", "tooLongSend", "fallbackSend"}
HandlerMessages ==
    Cardinality({i \in 1..Len(outbox) : outbox[i].kind \in HandlerKinds})

\* the turn in slot t ends in this step, with a message Telegram accepted
TurnEndsDelivering(t) ==
    /\ turns[t].pc # "idle" /\ turns'[t].pc = "idle"
    /\ outbox' # outbox

\* C29: every inbound non-command message that passes validation results in
\* exactly one message delivered to the user (the model reply, the
\* empty-reply placeholder, the too-long notice, or one fallback reply) and
\* never two, whatever step of the turn fails.  Stated for the first inbound
\* message of the process; a turn whose last delivery Telegram rejected is
\* left aside.
C29_OneMessagePerTurn ==
    [][\A t \in TurnSlots :
          (budget.receives = 1 /\ TurnEndsDelivering(t)) => HandlerMessages' = 1
      ]_vars

\* C30: a turn persists either both its user message and its assistant reply
\* or neither: after any sequence of turns, including turns in which a
\* storage write fails, every user's stored history has an even number of
\* messages and alternates user, assistant, starting with user.
C30_HistoryInPairs ==
    \A u \in getUserIdsStmt :
        LET rows == RowsOf(messages, u)
        IN  /\ Len(rows) % 2 = 0
            /\ \A i \in 1..Len(rows) :
                  rows[i].role = IF i % 2 = 1 THEN "user" ELSE "assistant"

----------------------------------------------------------------------------
(* Claims about writes that follow /clear *)

\* memory.clear of the /clear command has run for the user, and the user has
\* not written since: /clear is the last update that arrived
ClearCompleted == budget.receives >= 2

\* C31: once /clear has completed for a user, that user's stored messages,
\* facts and moods stay empty until the user sends a new message after the
\* clear: no turn, fact-extraction task or mood task that was already in
\* flight when /clear ran writes a record for that user afterwards.
C31_ClearedStaysEmpty ==
    ClearCompleted =>
        /\ RowsOf(messages, SqlText(Regular)) = <<>>
        /\ RowsOf(memories, SqlText(Regular)) = <<>>
        /\ RowsOf(moods, SqlText(Regular)) = <<>>

----------------------------------------------------------------------------
(* Claims about the users of the store *)

\* the step is a call of add, addImportantFact, addMood or clear for user a
WritesFor(a) ==
    /\ ops' = ops + 1
    /\ ret'.op \in {"add", "addImportantFact", "addMood", "clear"}
    /\ ret'.user = a

\* What the store reads for user b from the tables msgs, mems and mds and
\* the caches facts and mood: the results of getImportantFacts,
\* getRecentMood, getAll, getRecent(n), getChatCount, and whether
\* getUserIds lists b.
ReadsOn(msgs, mems, mds, facts, mood, b) ==
    LET rows == RowsOf(msgs, b)
        stored == SorterDesc(RowsOf(mems, b))
        latest == getMood(mds, b)
    IN  [facts |-> IF revision = "cached" /\ MapHas(facts, b) THEN facts[b]
                   ELSE [i \in 1..Len(stored) |-> stored[i].fact],
         mood |-> IF revision = "cached" /\ MapHas(mood, b) THEN mood[b]
                  ELSE IF latest # <<>> THEN latest[1].mood ELSE Null,
         all |-> SliceLast(RoleContent(OrderByCreatedAtAsc(rows)), AllCap),
         recent |-> [n \in Limits |->
                       Reverse(RoleContent(SqlLimit(OrderByCreatedAtDesc(rows),
                                                    Min(n, RecentCap))))],
         count |-> Len(rows),
         listed |-> \E k \in 1..Len(msgs) : msgs[k].user_id = b]

\* what the read operations of the store return for b in this state
ReadsNow(b) ==
    [facts |-> FactsServed(b),
     mood |-> MoodServed(b),
     all |-> getAllValue(b, FALSE),
     recent |-> [n \in Limits |-> getRecentValue(b, n, FALSE)],
     count |-> getMessageCount(b),
     listed |-> b \in getUserIdsStmt]

\* the rows of user b and everything the store reads for b are as before
OtherUntouched(b) ==
    /\ RowsOf(messages', b) = RowsOf(messages, b)
    /\ RowsOf(memories', b) = RowsOf(memories, b)
    /\ RowsOf(moods', b) = RowsOf(moods, b)
    /\ ReadsOn(messages', memories', moods', importantCache', moodCache', b) =
          ReadsOn(messages, memories, moods, importantCache, moodCache, b)

\* C32: store operations on one user never change another user's data: add,
\* addImportantFact, addMood (including its trim to 50) and clear applied to
\* user A leave the messages, facts, moods and every read result of each
\* user B different from A unchanged, whether the call succeeds or fails.
\* (The read results of a state are those that ReadsOn computes from its
\* tables and caches.)
C32_OtherUsersUntouched ==
    /\ [](\A b \in Users :
            ReadsOn(messages, memories, moods, importantCache, moodCache, b) =
               ReadsNow(b))
    /\ [][\A a \in Users : \A b \in Users \ {a} :
             WritesFor(a) => OtherUntouched(b)]_vars

\* addMood has trimmed the moods of u1 back to 50 while u2 holds 50 of its
\* own
C32_Witness ==
    /\ ret.op = "addMood" /\ ret.user = "u1" /\ ~ret.err
    /\ seq.moods = 2 * MoodOffset + 1
    /\ Len(RowsOf(moods, "u1")) = MoodOffset
    /\ Len(RowsOf(moods, "u2")) = MoodOffset
    /\ moods[Len(moods)].user_id = "u1"

\* clear has deleted what u1 had stored while u2 keeps its messages, its
\* fact and its moods
C32_WitnessClear ==
    /\ ret.op = "clear" /\ ret.user = "u1" /\ ~ret.err
    /\ getMessageCount("u1") = 0 /\ getMessageCount("u2") = 4
    /\ getMemories("u1") = <<>> /\ getMemories("u2") = <<PreFacts[2]>>
    /\ Len(RowsOf(moods, "u2")) = MoodOffset

----------------------------------------------------------------------------
(* Claims about a reply that is too long for Telegram *)

\* the model call of turn t comes back with a reply of 4097 characters
LongReplyArrives(t) ==
    \E r \in RandomDraws : TurnLLM(t, [ok |-> TRUE, val |-> LongReply], r)

\* C33: when the model's reply is longer than 4096 characters, the turn
\* delivers the reply truncated to 4096 characters (the first 4093
\* characters followed by '...'), persists that truncated reply as the
\* assistant message, and completes as a normal successful turn: the text
\* handed to bot.sendMessage has 4096 characters and is the reply that the
\* turn goes on to store.
C33_LongReplyTruncated ==
    [][\A t \in TurnSlots :
          LongReplyArrives(t) =>
             /\ turns'[t].pc = "replySend"
             /\ TextLength(turns'[t].sending) = 4096
             /\ turns'[t].reply = turns'[t].sending
      ]_vars

====
